---- MODULE Spec2Model ----
(***************************************************************************)
(* Vector-record orchestration layer of DRAB (drab/src): VectorService,    *)
(* the /query routes, and the Vector Store (Qdrant collection) they drive. *)
(*                                                                         *)
(* Strings are sequences of one-character strings, so that the UUID test   *)
(* and the hash reformatting of convertToValidId are computed character by *)
(* character as the code computes them.                                    *)
(***************************************************************************)
EXTENDS Integers, Sequences, FiniteSets, TLC

VARIABLES points, lastCall, nops, derived, lastWrite, deletedOk,
          pc, embedder, tlsVerify, collection, inflight, applied,
          starting, creates, session

vars == <<points, lastCall, nops, derived, lastWrite, deletedOk,
          pc, embedder, tlsVerify, collection, inflight, applied,
          starting, creates, session>>

\* storeVector calls that run concurrently (SpecRace): where each caller is,
\* and the order in which the Vector Store applied their upserts
race == <<inflight, applied>>

\* VectorService.initialize calls that run concurrently (SpecBoot): where each
\* caller is, and the createCollection requests the Vector Store received
boot == <<starting, creates>>

\* the services' own state and the process environment
lifecycle == <<pc, embedder, tlsVerify, collection>>

(***************************************************************************)
(* Bounds                                                                  *)
(***************************************************************************)
\* number of operations in one run
MaxOps == 3
\* how many of them may begin before initializeServices has completed
MaxEarlyOps == 1
\* number of concurrent callers of storeVector
MaxWriters == 2
\* number of concurrent callers of VectorService.initialize
MaxStarters == 3
\* number of prompts of one calculator session
MaxPrompts == 6

(***************************************************************************)
(* Program constants                                                       *)
(***************************************************************************)
\* vector.service.ts:10  private vectorSize = 384
vectorSize == 384
\* query.routes.ts:30  Math.min(limit, 100)
LimitCap == 100
\* query.routes.ts:31  Math.max(threshold, 0.0); scores and thresholds are
\* counted in hundredths (0.5 is 50)
ThresholdFloor == 0
\* query.routes.ts:11  limit = 10 when the body gives none
DefaultLimit == 10
\* query.routes.ts:11  threshold = 0.0 when the body gives none
DefaultThreshold == 0
\* query.routes.ts:55  t.Number({ minimum: 1, maximum: 100 })
SchemaLimitMin == 1
SchemaLimitMax == 100
\* query.routes.ts:56  t.Number({ minimum: 0.0, maximum: 1.0 })
SchemaThresholdMin == 0
SchemaThresholdMax == 100

(***************************************************************************)
(* Identifiers of the model                                                *)
(***************************************************************************)
\* undefined and "" are both falsy in `!customId` and `originalId || qdrantId`
NoId == <<>>

doc_001 == <<"d","o","c","_","0","0","1">>
\* the key convertToValidId derives from "doc_001", supplied as an id itself
uuid_of_doc_001 == <<"8","9","9","c","9","1","9","4","-","a","b","2","e","-","4","2","8","b","-","8","9","2","0","-","f","b","6","c","3","b","0","e","d","f","7","2">>
\* a caller-chosen version-4 UUID written in upper case
upper_uuid == <<"5","5","0","E","8","4","0","0","-","E","2","9","B","-","4","1","D","4","-","A","7","1","6","-","4","4","6","6","5","5","4","4","0","0","0","0">>
\* values uuidv4() can return
gen_uuid_1 == <<"1","b","9","d","6","b","c","d","-","b","b","f","d","-","4","b","2","d","-","9","b","5","d","-","a","b","8","d","f","b","b","d","4","b","e","d">>
gen_uuid_2 == <<"9","c","4","f","2","a","7","e","-","3","d","1","0","-","4","c","8","a","-","b","e","6","7","-","0","f","5","a","2","d","9","c","7","b","3","1">>

\* ids a caller supplies to store / get / delete / similar
Ids == {doc_001, uuid_of_doc_001, upper_uuid}
GenPool == {gen_uuid_1, gen_uuid_2}

(***************************************************************************)
(* crypto.createHash('sha256').update(customId).digest('hex'), tabulated   *)
(* for the ids of the model.                                               *)
(***************************************************************************)
sha256hex(s) ==
  CASE s = doc_001 ->
    <<"8","9","9","c","9","1","9","4","a","b","2","e","1","2","8","b","0","9","2","0","f","b","6","c","3","b","0","e","d","f","7","2","5","7","1","6","f","7","f","4","a","8","4","3","6","1","9","c","b","c","7","d","0","f","9","9","0","8","f","1","d","5","9","0">>
    [] s = uuid_of_doc_001 ->
    <<"2","4","5","0","d","3","7","2","d","8","6","f","f","d","4","c","8","8","8","8","6","6","b","d","2","f","8","4","0","c","3","0","f","2","1","c","6","9","c","d","a","6","f","7","e","f","c","f","b","2","0","e","3","6","5","c","6","3","0","9","9","a","0","0">>
    [] s = upper_uuid ->
    <<"c","4","4","c","a","7","7","0","e","1","e","2","8","8","f","e","e","e","9","b","e","d","a","f","9","c","c","e","a","1","b","4","e","b","3","f","2","0","c","9","2","d","7","5","3","2","1","f","a","1","2","a","2","e","8","9","1","9","2","7","3","b","6","7">>
    [] s = gen_uuid_1 ->
    <<"f","d","4","f","3","3","b","1","7","3","6","b","5","8","c","f","f","0","d","a","1","5","5","5","6","7","3","7","3","1","a","6","9","4","2","1","6","9","2","0","1","a","1","1","1","1","2","e","2","b","4","c","9","3","7","5","2","5","6","3","1","4","2","0">>
    [] s = gen_uuid_2 ->
    <<"f","2","9","0","0","2","a","7","0","4","1","f","7","1","c","5","4","1","2","9","a","3","2","b","0","5","7","c","b","d","e","8","4","4","0","6","6","b","6","d","3","6","3","b","0","4","7","8","b","3","9","c","c","5","6","5","1","f","2","2","4","3","b","2">>

LowerHex == {"0","1","2","3","4","5","6","7","8","9","a","b","c","d","e","f"}
UpperHex == {"A","B","C","D","E","F"}

\* parseInt(c, 16) of one hex digit
parseIntHex(c) ==
  CASE c = "0" -> 0 [] c = "1" -> 1 [] c = "2" -> 2 [] c = "3" -> 3
    [] c = "4" -> 4 [] c = "5" -> 5 [] c = "6" -> 6 [] c = "7" -> 7
    [] c = "8" -> 8 [] c = "9" -> 9
    [] c \in {"a","A"} -> 10 [] c \in {"b","B"} -> 11 [] c \in {"c","C"} -> 12
    [] c \in {"d","D"} -> 13 [] c \in {"e","E"} -> 14 [] c \in {"f","F"} -> 15

\* (n).toString(16) for n in 0..15
toString16(n) ==
  <<"0","1","2","3","4","5","6","7","8","9","a","b","c","d","e","f">>[n + 1]

\* String.prototype.substring(from, to), zero-based, `to` exclusive
substring(s, from, to) == SubSeq(s, from + 1, IF to < Len(s) THEN to ELSE Len(s))

\* uuidRegex.test(customId):
\* /^[0-9a-f]{8}-[0-9a-f]{4}-[1-5][0-9a-f]{3}-[89ab][0-9a-f]{3}-[0-9a-f]{12}$/
\* without the i flag
uuidRegexTestCaseSensitive(customId) ==
  /\ Len(customId) = 36
  /\ \A i \in 1..36 :
       IF i \in {9, 14, 19, 24} THEN customId[i] = "-"
       ELSE IF i = 15 THEN customId[i] \in {"1","2","3","4","5"}
       ELSE IF i = 20 THEN customId[i] \in {"8","9","a","b"}
       ELSE customId[i] \in LowerHex

\* uuidRegex.test(customId), with the i flag
uuidRegexTest(customId) ==
  /\ Len(customId) = 36
  /\ \A i \in 1..36 :
       IF i \in {9, 14, 19, 24} THEN customId[i] = "-"
       ELSE IF i = 15 THEN customId[i] \in {"1","2","3","4","5"}
       ELSE IF i = 20 THEN customId[i] \in {"8","9","a","b","A","B"}
       ELSE customId[i] \in LowerHex \cup UpperHex

\* the hash branch with the variant digit copied from the digest
hashToUuidRawVariant(hash) ==
  substring(hash, 0, 8) \o <<"-">>
    \o substring(hash, 8, 12) \o <<"-">>
    \o <<"4">> \o substring(hash, 13, 16) \o <<"-">>
    \o substring(hash, 16, 20) \o <<"-">>
    \o substring(hash, 20, 32)

\* the hash branch: the digest reformatted as a version-4 UUID
hashToUuid(hash) ==
  substring(hash, 0, 8) \o <<"-">>
    \o substring(hash, 8, 12) \o <<"-">>
    \o <<"4">> \o substring(hash, 13, 16) \o <<"-">>
    \o <<toString16((parseIntHex(substring(hash, 16, 17)[1]) % 4) + 8)>>
    \o substring(hash, 17, 20) \o <<"-">>
    \o substring(hash, 20, 32)

\* uuidv4(): a key no point of the collection has
uuidv4 ==
  IF gen_uuid_1 \notin DOMAIN points THEN gen_uuid_1 ELSE gen_uuid_2

\* lines 82-100 of convertToValidId: a UUID is returned as is, anything else
\* becomes the UUID built from its hash
suppliedKey(customId) ==
  IF uuidRegexTest(customId) THEN customId
  ELSE hashToUuid(sha256hex(customId))

\* suppliedKey of the ids of the model, computed once
SuppliedKeys == [id \in Ids \cup GenPool |-> suppliedKey(id)]

\* convertToValidId without the hash branch: every id that is not a UUID
\* gets a generated key
convertToValidIdNoHash(customId) ==
  IF customId = NoId THEN uuidv4
  ELSE IF uuidRegexTest(customId) THEN customId
  ELSE uuidv4

\* private convertToValidId(customId?: string): string
convertToValidId(customId) ==
  IF customId = NoId THEN uuidv4
  ELSE IF customId \in DOMAIN SuppliedKeys THEN SuppliedKeys[customId]
  ELSE suppliedKey(customId)

(***************************************************************************)
(* Values                                                                  *)
(***************************************************************************)
\* number[] embeddings: the code reads only their length; dir stands for the
\* numbers, which only the Vector Store's cosine score looks at
embA == [length |-> vectorSize, dir |-> "a"]
embB == [length |-> vectorSize, dir |-> "b"]
embShort == [length |-> vectorSize - 1, dir |-> "a"]
Embeddings == {embA, embB, embShort}

\* metadata?: Record<string, any>
NoMeta == [defined |-> FALSE, entries |-> {}]
EmptyMeta == [defined |-> TRUE, entries |-> {}]
meta1 == [defined |-> TRUE, entries |-> {<<"source", "wiki">>}]

text1 == <<"s","u","n">>
text2 == <<"m","o","o","n">>
blankText == <<" "," ">>

\* what callers store beside the id
Contents ==
  { [text |-> text1, embedding |-> embA, metadata |-> meta1],
    [text |-> text2, embedding |-> embB, metadata |-> NoMeta],
    [text |-> text1, embedding |-> embShort, metadata |-> meta1] }

VectorRecord(id, c) ==
  [id |-> id, text |-> c.text, embedding |-> c.embedding, metadata |-> c.metadata]

\* ids a caller passes to get / delete / similar: its own and returned keys
LookupIds == Ids \cup GenPool

null == [isNull |-> TRUE]

\* the calculator's prediction session (SpecCalc) when it is not running
NoSession ==
  [pc |-> "none", prompts |-> 0, predicts |-> 0, input |-> <<>>,
   asked |-> <<>>, shown |-> "", exitCode |-> 0]

\* text.trim().length === 0 (true of the empty text as well)
isBlankText(text) == \A i \in 1..Len(text) : text[i] = " "

\* record.metadata || {}
metadataOrEmpty(m) == IF m.defined THEN m ELSE EmptyMeta

(***************************************************************************)
(* Errors: new Error(`${wrapped}: ${cause}`), with the two numbers a        *)
(* dimension mismatch names                                                *)
(***************************************************************************)
NoError == [wrapped |-> "", cause |-> "", expected |-> 0, got |-> 0]
UpstreamError(wrapped) ==
  [wrapped |-> wrapped, cause |-> "upstream", expected |-> 0, got |-> 0]

Returned(value, calls, pts) ==
  [status |-> "returned", value |-> value, error |-> NoError,
   calls |-> calls, points |-> pts, qdrantId |-> NoId]
Thrown(error, calls, pts) ==
  [status |-> "thrown", value |-> null, error |-> error,
   calls |-> calls, points |-> pts, qdrantId |-> NoId]

(***************************************************************************)
(* The Vector Store (QdrantClient), one collection: key -> point           *)
(***************************************************************************)
\* an upsert that writes the vector and leaves the payload of a point that
\* is already there
client_upsertKeepsPayload(pts, point) ==
  [k \in DOMAIN pts \cup {point.id} |->
     IF k # point.id THEN pts[k]
     ELSE IF k \in DOMAIN pts THEN [point EXCEPT !.payload = pts[k].payload]
     ELSE point]

\* an upsert that adds a second point, under a fresh key, where the key is
\* already taken
client_upsertAdds(pts, point) ==
  LET fresh == IF gen_uuid_1 \notin DOMAIN pts THEN gen_uuid_1 ELSE gen_uuid_2
      at == IF point.id \in DOMAIN pts THEN fresh ELSE point.id
  IN  [k \in DOMAIN pts \cup {at} |->
         IF k = at THEN [point EXCEPT !.id = at] ELSE pts[k]]

\* client.upsert(collection, {wait: true, points: [point]}): full replace
client_upsert(pts, point) ==
  [k \in DOMAIN pts \cup {point.id} |-> IF k = point.id THEN point ELSE pts[k]]

\* client.retrieve(collection, {ids: [key], with_payload, with_vector})
client_retrieve(pts, key) ==
  IF key \in DOMAIN pts THEN <<pts[key]>> ELSE <<>>

\* client.scroll(collection, {filter: original_id == value, limit: 1}):
\* the results the store may give, at most one point each
client_scroll(pts, value) ==
  LET hits == {k \in DOMAIN pts : pts[k].payload.original_id = value}
  IN  IF hits = {} THEN {<<>>} ELSE {<<pts[k]>> : k \in hits}

\* a delete that empties the collection
client_deleteClears(pts, key) ==
  [k \in {} |-> pts[k]]

\* client.delete(collection, {wait: true, points: [key]}): succeeds whether
\* or not the point exists
client_delete(pts, key) ==
  [k \in DOMAIN pts \ {key} |-> pts[k]]

\* cosine similarity of two embeddings, in hundredths
cosine(q, v) == IF q.dir = v.dir THEN 100 ELSE 30

Min(a, b) == IF a < b THEN a ELSE b
Max(a, b) == IF a > b THEN a ELSE b

\* the keys of the model in a fixed order, to rank equal scores by
KeyOrder == <<uuid_of_doc_001, upper_uuid, gen_uuid_1, gen_uuid_2>>
keyRank(k) == CHOOSE i \in 1..Len(KeyOrder) : KeyOrder[i] = k

\* client.search(collection, {vector, limit, score_threshold, with_payload}):
\* the points scoring at least the threshold, by descending score, cut at
\* limit; the store ranks equal scores either way (tieAscending)
client_search(pts, vector, limit, threshold, tieAscending) ==
  LET hits == {k \in DOMAIN pts : cosine(vector, pts[k].vector) >= threshold}
      before(j, k) ==
        \/ cosine(vector, pts[j].vector) > cosine(vector, pts[k].vector)
        \/ /\ cosine(vector, pts[j].vector) = cosine(vector, pts[k].vector)
           /\ IF tieAscending THEN keyRank(j) < keyRank(k)
                               ELSE keyRank(j) > keyRank(k)
      at(i) == CHOOSE k \in hits : Cardinality({j \in hits : before(j, k)}) = i - 1
  IN  [i \in 1..Min(Cardinality(hits), limit) |->
         [id |-> at(i), score |-> cosine(vector, pts[at(i)].vector),
          payload |-> pts[at(i)].payload]]

UpsertCall(key) == [call |-> "upsert", key |-> key, limit |-> 0, threshold |-> 0]
RetrieveCall(key) == [call |-> "retrieve", key |-> key, limit |-> 0, threshold |-> 0]
ScrollCall(value) == [call |-> "scroll", key |-> value, limit |-> 1, threshold |-> 0]
DeleteCall(key) == [call |-> "delete", key |-> key, limit |-> 0, threshold |-> 0]
SearchCall(limit, threshold) ==
  [call |-> "search", key |-> NoId, limit |-> limit, threshold |-> threshold]

(***************************************************************************)
(* VectorService (vector.service.ts).  Every operation is an operator that *)
(* gives the call's outcome: returned value or thrown error, the Vector    *)
(* Store calls it issued in order, and the collection afterwards.  The     *)
(* ...Ok arguments say whether that call to the Vector Store succeeds; a   *)
(* failed call leaves the collection as it was.                            *)
(***************************************************************************)
\* the check of storeVector, accepting shorter embeddings
storeDimensionOkAtMost(record) == record.embedding.length <= vectorSize

\* !(record.embedding.length !== this.vectorSize) in storeVector
storeDimensionOk(record) == record.embedding.length = vectorSize

\* !(queryVector.length !== this.vectorSize) in searchSimilar
queryDimensionOk(queryVector) == queryVector.length = vectorSize

DimensionError(wrapped, cause, embedding) ==
  [wrapped |-> wrapped, cause |-> cause,
   expected |-> vectorSize, got |-> embedding.length]

\* the point storeVector builds, keeping the payload of the point it
\* replaces where the new record has the same text
storePointMerging(record, qdrantId) ==
  [id |-> qdrantId,
   vector |-> record.embedding,
   payload |-> [original_id |-> record.id,
                text |-> record.text,
                metadata |-> IF qdrantId \in DOMAIN points /\ ~record.metadata.defined
                             THEN points[qdrantId].payload.metadata
                             ELSE metadataOrEmpty(record.metadata)]]

\* const point = { id, vector, payload: { original_id, text, metadata } };
\* created_at is written and never read back by any operation
storePoint(record, qdrantId) ==
  [id |-> qdrantId,
   vector |-> record.embedding,
   payload |-> [original_id |-> record.id,
                text |-> record.text,
                metadata |-> metadataOrEmpty(record.metadata)]]

\* return originalId || qdrantId, always giving the Qdrant id
storeReturnKey(originalId, qdrantId) == qdrantId

\* return originalId || qdrantId
storeReturn(originalId, qdrantId) ==
  IF originalId # NoId THEN originalId ELSE qdrantId

storeVector(pts, record, upsertOk) ==
  LET originalId == record.id
      qdrantId == convertToValidId(record.id)
      out ==
        IF ~storeDimensionOk(record)
        THEN Thrown(DimensionError("Failed to store vector",
                                   "Embedding dimension mismatch", record.embedding),
                    <<>>, pts)
        ELSE IF ~upsertOk
        THEN Thrown(UpstreamError("Failed to store vector"),
                    <<UpsertCall(qdrantId)>>, pts)
        ELSE Returned(storeReturn(originalId, qdrantId),
                      <<UpsertCall(qdrantId)>>,
                      client_upsert(pts, storePoint(record, qdrantId)))
  IN  [out EXCEPT !.qdrantId = qdrantId]

\* the id of a record read back, taken from the point's key alone
idOfPointNative(id, payload) == id

\* (point.payload?.original_id as string) || point.id.toString()
idOfPoint(id, payload) ==
  IF payload.original_id # NoId THEN payload.original_id ELSE id

\* the VectorRecord getVector rebuilds from a point
recordOfPoint(point) ==
  [id |-> idOfPoint(point.id, point.payload),
   text |-> point.payload.text,
   embedding |-> point.vector,
   metadata |-> metadataOrEmpty(point.payload.metadata)]

\* getVector without the scan by original_id
getVectorDirectOnly(pts, id, retrieveOk, scrollOk, scrolled) ==
  LET qdrantId == convertToValidId(id)
      direct == client_retrieve(pts, qdrantId)
      calls == <<RetrieveCall(qdrantId)>>
      out ==
        IF ~retrieveOk
        THEN Thrown(UpstreamError("Failed to retrieve vector"), calls, pts)
        ELSE IF direct = <<>>
        THEN Returned(null, calls, pts)
        ELSE Returned(recordOfPoint(direct[1]), calls, pts)
  IN  [out EXCEPT !.qdrantId = qdrantId]

\* scrolled: what client.scroll gives if it is called
getVector(pts, id, retrieveOk, scrollOk, scrolled) ==
  LET qdrantId == convertToValidId(id)
      direct == client_retrieve(pts, qdrantId)
      scan == direct = <<>> /\ qdrantId # id
      calls == IF retrieveOk /\ scan
               THEN <<RetrieveCall(qdrantId), ScrollCall(id)>>
               ELSE <<RetrieveCall(qdrantId)>>
      result == IF scan /\ scrolled # <<>> THEN scrolled ELSE direct
      out ==
        IF ~retrieveOk \/ (scan /\ ~scrollOk)
        THEN Thrown(UpstreamError("Failed to retrieve vector"), calls, pts)
        ELSE IF result = <<>>
        THEN Returned(null, calls, pts)
        ELSE Returned(recordOfPoint(result[1]), calls, pts)
  IN  [out EXCEPT !.qdrantId = qdrantId]

\* what the direct delete removes when it leaves the point in place
directDeleteKeeps(pts, qdrantId) == pts

\* the effect of the acknowledged direct delete of lines 339-342
directDelete(pts, qdrantId) == client_delete(pts, qdrantId)

deleteVector(pts, id, deleteOk, scrollOk, scrolled, secondDeleteOk) ==
  LET qdrantId == convertToValidId(id)
      out ==
        IF deleteOk
        THEN Returned(TRUE, <<DeleteCall(qdrantId)>>, directDelete(pts, qdrantId))
        ELSE IF qdrantId # id
        THEN IF ~scrollOk
             THEN Thrown(UpstreamError("Failed to delete vector"),
                         <<DeleteCall(qdrantId), ScrollCall(id)>>, pts)
             ELSE IF scrolled # <<>>
             THEN IF secondDeleteOk
                  THEN Returned(TRUE,
                                <<DeleteCall(qdrantId), ScrollCall(id),
                                  DeleteCall(scrolled[1].id)>>,
                                client_delete(pts, scrolled[1].id))
                  ELSE Thrown(UpstreamError("Failed to delete vector"),
                              <<DeleteCall(qdrantId), ScrollCall(id),
                                DeleteCall(scrolled[1].id)>>, pts)
             ELSE Returned(FALSE, <<DeleteCall(qdrantId), ScrollCall(id)>>, pts)
        ELSE Returned(FALSE, <<DeleteCall(qdrantId)>>, pts)
  IN  [out EXCEPT !.qdrantId = qdrantId]

\* one QueryResult; key is the point the hit came from (the code drops it)
queryResult(hit) ==
  [id |-> idOfPoint(hit.id, hit.payload),
   text |-> hit.payload.text,
   score |-> hit.score,
   metadata |-> metadataOrEmpty(hit.payload.metadata),
   key |-> hit.id]

searchSimilar(pts, queryVector, limit, threshold, searchOk, tieAscending) ==
  IF ~queryDimensionOk(queryVector)
  THEN Thrown(DimensionError("Failed to search similar vectors",
                             "Query vector dimension mismatch", queryVector),
              <<>>, pts)
  ELSE IF ~searchOk
  THEN Thrown(UpstreamError("Failed to search similar vectors"),
              <<SearchCall(limit, threshold)>>, pts)
  ELSE LET searchResult ==
             client_search(pts, queryVector, limit, threshold, tieAscending)
       IN  Returned([i \in 1..Len(searchResult) |-> queryResult(searchResult[i])],
                    <<SearchCall(limit, threshold)>>, pts)

\* calls on the collection as a whole
GetCollectionsCall == [call |-> "getCollections", key |-> NoId, limit |-> 0, threshold |-> 0]
CreateCollectionCall == [call |-> "createCollection", key |-> NoId, limit |-> 0, threshold |-> 0]
GetCollectionCall == [call |-> "getCollection", key |-> NoId, limit |-> 0, threshold |-> 0]
\* one upsert carrying all the points of a batch
BatchUpsertCall(keys) ==
  [call |-> "upsert", key |-> NoId, limit |-> 0, threshold |-> 0, keys |-> keys]

\* VectorService.initialize(): list the collections, create this one if it is
\* not among them, then read its info; any failure is rethrown.  exists is
\* whether the Vector Store holds the collection when initialize begins.
vectorInitialize(exists, listOk, createOk, infoOk) ==
  LET listed == <<GetCollectionsCall>>
      created == IF exists THEN listed ELSE Append(listed, CreateCollectionCall)
  IN  IF ~listOk
      THEN [status |-> "thrown", collection |-> exists, calls |-> listed]
      ELSE IF ~exists /\ ~createOk
      THEN [status |-> "thrown", collection |-> FALSE, calls |-> created]
      ELSE IF ~infoOk
      THEN [status |-> "thrown", collection |-> TRUE,
            calls |-> Append(created, GetCollectionCall)]
      ELSE [status |-> "returned", collection |-> TRUE,
            calls |-> Append(created, GetCollectionCall)]

\* const id = record.id || uuidv4()
batchId(record) == IF record.id # NoId THEN record.id ELSE uuidv4

\* the point storeVectors would build under the identity policy of storeVector
batchPointDerived(record) ==
  [id |-> convertToValidId(record.id),
   vector |-> record.embedding,
   payload |-> [original_id |-> record.id,
                text |-> record.text,
                metadata |-> metadataOrEmpty(record.metadata)]]

\* the point storeVectors builds: the id as given, no original_id in the payload
batchPoint(record) ==
  [id |-> batchId(record),
   vector |-> record.embedding,
   payload |-> [original_id |-> NoId,
                text |-> record.text,
                metadata |-> metadataOrEmpty(record.metadata)]]

\* the Vector Store takes unsigned integers and UUIDs as point ids; of the
\* ids of the model, the UUIDs are those uuidRegexTest accepts
pointIdAccepted(id) == uuidRegexTest(id)

\* client.upsert(collection, {wait: true, points}): every point replaced whole,
\* in order
RECURSIVE client_upsertAll(_, _)
client_upsertAll(pts, batch) ==
  IF batch = <<>> THEN pts
  ELSE client_upsertAll(client_upsert(pts, Head(batch)), Tail(batch))

\* the dimension check of storeVectors looking at the first record only
batchDimensionOkFirst(records) ==
  records = <<>> \/ records[1].embedding.length = vectorSize

\* no record of the batch throws in records.map(...)
batchDimensionOk(records) ==
  \A i \in 1..Len(records) : records[i].embedding.length = vectorSize

\* VectorService.storeVectors(records)
storeVectors(pts, records, upsertOk) ==
  LET batch == [i \in 1..Len(records) |-> batchPoint(records[i])]
      keys == [i \in 1..Len(records) |-> batch[i].id]
      firstBad == CHOOSE i \in 1..Len(records) :
                    /\ records[i].embedding.length # vectorSize
                    /\ \A j \in 1..(i - 1) : records[j].embedding.length = vectorSize
  IN  IF ~batchDimensionOk(records)
      THEN Thrown(DimensionError("Failed to store vectors",
                                 "Embedding dimension mismatch for record",
                                 records[firstBad].embedding),
                  <<>>, pts)
      ELSE IF ~upsertOk \/ \E i \in 1..Len(keys) : ~pointIdAccepted(keys[i])
      THEN Thrown(UpstreamError("Failed to store vectors"),
                  <<BatchUpsertCall(keys)>>, pts)
      ELSE Returned(keys, <<BatchUpsertCall(keys)>>, client_upsertAll(pts, batch))

\* VectorService.getStats()
getStats(pts, infoOk) ==
  IF ~infoOk
  THEN Thrown(UpstreamError("Failed to get collection stats"),
              <<GetCollectionCall>>, pts)
  ELSE Returned([vectorsCount |-> Cardinality(DOMAIN pts)],
                <<GetCollectionCall>>, pts)

\* VectorService.healthCheck()
healthCheck(pts, listOk) == Returned(listOk, <<GetCollectionsCall>>, pts)

(***************************************************************************)
(* EmbeddingService (embedding.service.ts).  embedder is "null" until       *)
(* initialize has loaded a pipeline, then says where it was loaded from.   *)
(* The Embedding Generator is the pipeline call `this.embedder(text, ...)`.*)
(***************************************************************************)
GeneratorCall(text) == [call |-> "embedder", key |-> text, limit |-> 0, threshold |-> 0]

\* new Error('Embedding model not initialized. Call initialize() first.')
NotInitialized ==
  [wrapped |-> "", cause |-> "Embedding model not initialized", expected |-> 0, got |-> 0]
\* new Error('Input text cannot be empty')
EmptyText ==
  [wrapped |-> "", cause |-> "Input text cannot be empty", expected |-> 0, got |-> 0]
\* new Error('Input texts array cannot be empty')
EmptyTexts ==
  [wrapped |-> "", cause |-> "Input texts array cannot be empty", expected |-> 0, got |-> 0]

\* EmbeddingService.initialize(): the local load, and on its failure the
\* switch of NODE_TLS_REJECT_UNAUTHORIZED to '0' and the load from the remote
\* source.  tls is whether certificates are verified when it begins.
embeddingInitialize(tls, localOk, remoteOk) ==
  IF localOk
  THEN [status |-> "returned", embedder |-> "local", tls |-> tls]
  ELSE IF remoteOk
  THEN [status |-> "returned", embedder |-> "remote", tls |-> FALSE]
  ELSE [status |-> "thrown", embedder |-> "null", tls |-> FALSE]

\* the guard of generateEmbedding that lets blank text through
textOkAlways(text) == TRUE

\* !(!text || text.trim().length === 0)
textOk(text) == ~isBlankText(text)

\* EmbeddingService.generateEmbedding(text); piped is what the pipeline call
\* gives if it is made: a vector, or a throw (a result of unexpected format
\* throws in the same try block)
generateEmbedding(emb, text, piped) ==
  IF emb = "null"
  THEN Thrown(NotInitialized, <<>>, <<>>)
  ELSE IF ~textOk(text)
  THEN Thrown(EmptyText, <<>>, <<>>)
  ELSE IF ~piped.ok
  THEN Thrown(UpstreamError("Failed to generate embedding"),
              <<GeneratorCall(text)>>, <<>>)
  ELSE Returned(piped.embedding, <<GeneratorCall(text)>>, <<>>)

\* the loop of generateEmbeddings that skips an item whose generateEmbedding
\* throws and goes on with the next
RECURSIVE generateLoopSkipping(_, _, _, _, _)
generateLoopSkipping(emb, texts, piped, i, acc) ==
  IF i > Len(texts)
  THEN [out |-> Returned(acc.embeddings, acc.calls, <<>>), invoked |-> acc.invoked]
  ELSE LET out == generateEmbedding(emb, texts[i], piped[i])
       IN  generateLoopSkipping(emb, texts, piped, i + 1,
             [embeddings |-> IF out.status = "thrown" THEN acc.embeddings
                             ELSE Append(acc.embeddings, out.value),
              calls |-> acc.calls \o out.calls,
              invoked |-> Append(acc.invoked, texts[i])])

\* for (const text of texts) { embeddings.push(await this.generateEmbedding(text)) }
\* from item i on: each call is awaited before the next item is taken, and a
\* throw leaves the loop and the method.  invoked lists the texts
\* generateEmbedding was called with.
RECURSIVE generateLoop(_, _, _, _, _)
generateLoop(emb, texts, piped, i, acc) ==
  IF i > Len(texts)
  THEN [out |-> Returned(acc.embeddings, acc.calls, <<>>), invoked |-> acc.invoked]
  ELSE LET out == generateEmbedding(emb, texts[i], piped[i])
       IN  IF out.status = "thrown"
           THEN [out |-> Thrown(out.error, acc.calls \o out.calls, <<>>),
                 invoked |-> Append(acc.invoked, texts[i])]
           ELSE generateLoop(emb, texts, piped, i + 1,
                  [embeddings |-> Append(acc.embeddings, out.value),
                   calls |-> acc.calls \o out.calls,
                   invoked |-> Append(acc.invoked, texts[i])])

\* EmbeddingService.generateEmbeddings(texts); piped[i] is what the pipeline
\* gives for item i if it is called
generateEmbeddings(emb, texts, piped) ==
  IF Len(texts) = 0
  THEN [out |-> Thrown(EmptyTexts, <<>>, <<>>), invoked |-> <<>>]
  ELSE generateLoop(emb, texts, piped, 1,
                    [embeddings |-> <<>>, calls |-> <<>>, invoked |-> <<>>])

(***************************************************************************)
(* The /query routes (query.routes.ts): the body schema Elysia checks      *)
(* before it runs the handler, then the handler.                           *)
(***************************************************************************)
NoBody ==
  [limitGiven |-> FALSE, limit |-> 0, thresholdGiven |-> FALSE, threshold |-> 0]
Body(limit, threshold) ==
  [limitGiven |-> TRUE, limit |-> limit,
   thresholdGiven |-> TRUE, threshold |-> threshold]

\* the bodies of the model: none, in range, and limit=500 threshold=-1
Bodies == {NoBody, Body(1, 50), Body(500, -100)}
Queries == {text1, blankText}

\* limit: t.Optional(t.Number({minimum: 1, maximum: 100})),
\* threshold: t.Optional(t.Number({minimum: 0.0, maximum: 1.0}))
bodySchemaOk(body) ==
  /\ body.limitGiven =>
       body.limit >= SchemaLimitMin /\ body.limit <= SchemaLimitMax
  /\ body.thresholdGiven =>
       body.threshold >= SchemaThresholdMin /\ body.threshold <= SchemaThresholdMax

\* const { limit = 10, threshold = 0.0 } = body
limitOf(body) == IF body.limitGiven THEN body.limit ELSE DefaultLimit
thresholdOf(body) == IF body.thresholdGiven THEN body.threshold ELSE DefaultThreshold

\* !query || query.trim().length === 0
isBlank(text) == \A i \in 1..Len(text) : text[i] = " "

\* the reply of a route; handled is FALSE when Elysia rejected the request
\* against the schema and the handler did not run
Response(status, results, query, success) ==
  [status |-> status, results |-> results, query |-> query,
   success |-> success, handled |-> TRUE]
ValidationFailure ==
  [status |-> 422, results |-> <<>>, query |-> <<>>,
   success |-> FALSE, handled |-> FALSE]
NoResponse ==
  [status |-> 0, results |-> <<>>, query |-> <<>>,
   success |-> FALSE, handled |-> FALSE]

Routed(response, calls) == [response |-> response, calls |-> calls]

\* embeddingService.generateEmbedding(query): a vector, or a throw
GeneratorOutcomes ==
  {[ok |-> TRUE, embedding |-> e] : e \in Embeddings}
    \cup {[ok |-> FALSE, embedding |-> embShort]}

\* POST /query
postQuery(pts, query, body, generated, searchOk, tieAscending) ==
  IF ~bodySchemaOk(body)
  THEN Routed(ValidationFailure, <<>>)
  ELSE IF isBlank(query)
  THEN Routed(Response(400, <<>>, <<>>, FALSE), <<>>)
  ELSE IF ~generated.ok
  THEN Routed(Response(500, <<>>, <<>>, FALSE), <<>>)
  ELSE LET out == searchSimilar(pts, generated.embedding,
                                Min(limitOf(body), LimitCap),
                                Max(thresholdOf(body), ThresholdFloor),
                                searchOk, tieAscending)
       IN  IF out.status = "thrown"
           THEN Routed(Response(500, <<>>, <<>>, FALSE), out.calls)
           ELSE Routed(Response(200, out.value, query, TRUE), out.calls)

\* a filter that keeps every result
filterOutNothing(results, id) == results

\* results.filter(result => result.id !== id)
filterOut(results, id) == SelectSeq(results, LAMBDA result : result.id # id)

\* POST /query/similar/:id answering a missing record with success: true
postSimilarMissSucceeds(pts, id, body, retrieveOk, scrollOk, scrolled, searchOk, tieAscending) ==
  IF ~bodySchemaOk(body)
  THEN Routed(ValidationFailure, <<>>)
  ELSE LET got == getVector(pts, id, retrieveOk, scrollOk, scrolled)
       IN  IF got.status = "thrown"
           THEN Routed(Response(500, <<>>, <<>>, FALSE), got.calls)
           ELSE IF got.value = null
           THEN Routed(Response(404, <<>>, <<"Vector with ID: ">> \o id, TRUE),
                       got.calls)
           ELSE LET out == searchSimilar(pts, got.value.embedding,
                                         Min(limitOf(body), LimitCap),
                                         Max(thresholdOf(body), ThresholdFloor),
                                         searchOk, tieAscending)
                IN  IF out.status = "thrown"
                    THEN Routed(Response(500, <<>>, <<>>, FALSE),
                                got.calls \o out.calls)
                    ELSE Routed(Response(200, filterOut(out.value, id),
                                         <<"Similar to: ">>
                                           \o substring(got.value.text, 0, 100)
                                           \o <<"...">>,
                                         TRUE),
                                got.calls \o out.calls)

\* POST /query/similar/:id
postSimilar(pts, id, body, retrieveOk, scrollOk, scrolled, searchOk, tieAscending) ==
  IF ~bodySchemaOk(body)
  THEN Routed(ValidationFailure, <<>>)
  ELSE LET got == getVector(pts, id, retrieveOk, scrollOk, scrolled)
       IN  IF got.status = "thrown"
           THEN Routed(Response(500, <<>>, <<>>, FALSE), got.calls)
           ELSE IF got.value = null
           THEN Routed(Response(404, <<>>, <<"Vector with ID: ">> \o id, FALSE),
                       got.calls)
           ELSE LET out == searchSimilar(pts, got.value.embedding,
                                         Min(limitOf(body), LimitCap),
                                         Max(thresholdOf(body), ThresholdFloor),
                                         searchOk, tieAscending)
                IN  IF out.status = "thrown"
                    THEN Routed(Response(500, <<>>, <<>>, FALSE),
                                got.calls \o out.calls)
                    ELSE Routed(Response(200, filterOut(out.value, id),
                                         <<"Similar to: ">>
                                           \o substring(got.value.text, 0, 100)
                                           \o <<"...">>,
                                         TRUE),
                                got.calls \o out.calls)

(***************************************************************************)
(* The /embed routes (embedding.routes.ts)                                 *)
(***************************************************************************)
\* an EmbeddingRequest {text, id?, metadata?}
EmbeddingRequest(id, text, metadata) ==
  [id |-> id, text |-> text, metadata |-> metadata]

\* embedding: [] of a failed result
NoEmbedding == [length |-> 0, dir |-> ""]

\* the result pushed for an item with no text: text '' and metadata {}
BlankResult(request) ==
  [id |-> request.id, text |-> <<>>, embedding |-> NoEmbedding,
   metadata |-> EmptyMeta, success |-> FALSE]

\* the result pushed by the catch of one item
FailedResult(request) ==
  [id |-> request.id, text |-> request.text, embedding |-> NoEmbedding,
   metadata |-> metadataOrEmpty(request.metadata), success |-> FALSE]

\* the result pushed for an item that was embedded and stored
StoredResult(request, recordId, embedding) ==
  [id |-> recordId, text |-> request.text, embedding |-> embedding,
   metadata |-> request.metadata, success |-> TRUE]

\* what the loop has done so far: the results pushed, the collection, the
\* calls issued, the records stored and the keys derived
BatchProgress(pts) ==
  [results |-> <<>>, points |-> pts, calls |-> <<>>, stored |-> <<>>,
   reached |-> {}]

\* one pass of `for (const request of requests) { try {...} catch {...} }`;
\* answers[i] is how the pipeline and the Vector Store answer item i if asked
embedItem(emb, request, answer, acc) ==
  IF isBlankText(request.text)
  THEN [acc EXCEPT !.results = Append(@, BlankResult(request))]
  ELSE LET made == generateEmbedding(emb, request.text, answer.generated)
       IN  IF made.status = "thrown"
           THEN [acc EXCEPT !.results = Append(@, FailedResult(request)),
                            !.calls = @ \o made.calls]
           ELSE LET record == [id |-> request.id, text |-> request.text,
                               embedding |-> made.value,
                               metadata |-> request.metadata]
                    out == storeVector(acc.points, record, answer.upsertOk)
                    reached == IF request.id = NoId THEN acc.reached
                               ELSE acc.reached \cup {<<request.id, out.qdrantId>>}
                IN  IF out.status = "thrown"
                    THEN [acc EXCEPT !.results = Append(@, FailedResult(request)),
                                     !.calls = @ \o made.calls \o out.calls,
                                     !.reached = reached]
                    ELSE [results |-> Append(acc.results,
                                             StoredResult(request, out.value,
                                                          made.value)),
                          points |-> out.points,
                          calls |-> acc.calls \o made.calls \o out.calls,
                          stored |-> Append(acc.stored,
                                            [key |-> out.qdrantId,
                                             record |-> record]),
                          reached |-> reached]

\* the loop leaving at the first item that fails
RECURSIVE embedLoopAborting(_, _, _, _, _)
embedLoopAborting(emb, requests, answers, i, acc) ==
  IF i > Len(requests) THEN acc
  ELSE LET next == embedItem(emb, requests[i], answers[i], acc)
       IN  IF ~next.results[Len(next.results)].success THEN next
           ELSE embedLoopAborting(emb, requests, answers, i + 1, next)

\* for (const request of requests) { ... }: every item in turn
RECURSIVE embedLoop(_, _, _, _, _)
embedLoop(emb, requests, answers, i, acc) ==
  IF i > Len(requests) THEN acc
  ELSE embedLoop(emb, requests, answers, i + 1,
                 embedItem(emb, requests[i], answers[i], acc))

\* body: t.Array(t.Object({text: t.String({minLength: 1}), ...}))
batchSchemaOk(requests) ==
  \A i \in 1..Len(requests) : Len(requests[i].text) >= 1

\* POST /embed/batch: the reply ({results, success, processed} of the 201
\* reply; processed is results.length) and what the loop did
postEmbedBatch(pts, emb, requests, answers) ==
  IF ~batchSchemaOk(requests)
  THEN [response |-> ValidationFailure, done |-> BatchProgress(pts)]
  ELSE IF requests = <<>>
  THEN [response |-> Response(400, <<>>, <<>>, FALSE), done |-> BatchProgress(pts)]
  ELSE LET done == embedLoop(emb, requests, answers, 1, BatchProgress(pts))
       IN  [response |-> Response(201, done.results, <<>>, TRUE), done |-> done]

(***************************************************************************)
(* State.  points is the collection; lastCall is the operation that ran    *)
(* last, with its arguments, its outcome and the Vector Store calls it     *)
(* issued, and in before the point that was at its key when it began.     *)
(* derived, lastWrite and deletedOk are history: the keys derived          *)
(* for each id so far, the last acknowledged write at each key, and the    *)
(* deletes that returned true with no upsert at their key since.           *)
(***************************************************************************)
NoCall ==
  [op |-> "none", id |-> NoId, record |-> null, query |-> <<>>, body |-> NoBody,
   generated |-> [ok |-> FALSE, embedding |-> embShort],
   queryVector |-> embShort, before |-> <<>>,
   qdrantId |-> NoId, status |-> "", value |-> null, error |-> NoError,
   response |-> NoResponse, calls |-> <<>>,
   records |-> <<>>, texts |-> <<>>, invoked |-> <<>>, failed |-> FALSE,
   answers |-> <<>>]

ServiceCall(op, id, record, out) ==
  [NoCall EXCEPT !.op = op, !.id = id, !.record = record,
                 !.before = client_retrieve(points, out.qdrantId),
                 !.qdrantId = out.qdrantId, !.status = out.status,
                 !.value = out.value, !.error = out.error, !.calls = out.calls]

\* whether a Vector Store call the operation issued failed; answers[i] is
\* how the Vector Store answered the i-th call
Failed(calls, answers) == \E i \in 1..Len(calls) : ~answers[i]

\* the keys convertToValidId gave for supplied ids
Derive(id, qdrantId) ==
  IF id = NoId THEN derived ELSE derived \cup {<<id, qdrantId>>}

\* The process has started: initializeServices has not run yet, the embedder
\* is null, NODE_TLS_REJECT_UNAUTHORIZED is unset (certificates are verified),
\* and the Vector Store may or may not hold the collection of an earlier run
\* (its points are not enumerated: the collection starts empty).
Init ==
  /\ points = <<>>
  /\ lastCall = NoCall
  /\ nops = 0
  /\ derived = {}
  /\ lastWrite = <<>>
  /\ deletedOk = {}
  /\ pc = "embedding"
  /\ embedder = "null"
  /\ tlsVerify = TRUE
  /\ collection \in BOOLEAN
  /\ inflight = <<>>
  /\ applied = <<>>
  /\ starting = <<>>
  /\ creates = <<>>
  /\ session = NoSession

\* the process is running and the run has room for one more operation
Accepting ==
  /\ pc # "exited"
  /\ nops < MaxOps
  /\ pc # "ready" => nops < MaxEarlyOps

\* How the Vector Store answers during one operation: every call succeeds,
\* or one call fails (what comes after a failed call that ends the operation
\* is not reached)
GetUpstream ==
  { [retrieveOk |-> TRUE, scrollOk |-> TRUE],
    [retrieveOk |-> FALSE, scrollOk |-> TRUE],
    [retrieveOk |-> TRUE, scrollOk |-> FALSE] }
DeleteUpstream ==
  { [deleteOk |-> TRUE, scrollOk |-> TRUE, secondDeleteOk |-> TRUE],
    [deleteOk |-> FALSE, scrollOk |-> TRUE, secondDeleteOk |-> TRUE],
    [deleteOk |-> FALSE, scrollOk |-> FALSE, secondDeleteOk |-> TRUE],
    [deleteOk |-> FALSE, scrollOk |-> TRUE, secondDeleteOk |-> FALSE] }
AllOk ==
  [retrieveOk |-> TRUE, scrollOk |-> TRUE, searchOk |-> TRUE,
   tieAscending |-> TRUE]
SearchUpstream ==
  { AllOk, [AllOk EXCEPT !.tieAscending = FALSE], [AllOk EXCEPT !.searchOk = FALSE] }
SimilarUpstream ==
  SearchUpstream
    \cup {[AllOk EXCEPT !.retrieveOk = FALSE], [AllOk EXCEPT !.scrollOk = FALSE]}

\* Every call on a collection the Vector Store does not hold fails
Upsert == IF collection THEN BOOLEAN ELSE {FALSE}
Getting == IF collection THEN GetUpstream ELSE {u \in GetUpstream : ~u.retrieveOk}
Deleting ==
  IF collection THEN DeleteUpstream
  ELSE {u \in DeleteUpstream : ~u.deleteOk /\ ~u.scrollOk}
\* the order of equal scores shows only when two points are stored
Ties(S) == IF Cardinality(DOMAIN points) < 2 THEN {u \in S : u.tieAscending} ELSE S
Searching ==
  IF collection THEN Ties(SearchUpstream) ELSE {u \in SearchUpstream : ~u.searchOk}
Resembling ==
  IF collection THEN Ties(SimilarUpstream)
  ELSE {u \in SimilarUpstream : ~u.retrieveOk}

\* the ids callers ask for: their own, and the generated keys a store gave back
Asked == {id \in LookupIds : id \in Ids \/ id \in DOMAIN lastWrite}

\* What a valid, non-blank POST /query meets: the generator's outcome, then
\* the Vector Store's; the others reach neither
QuietEnv ==
  [generated |-> [ok |-> TRUE, embedding |-> embA], searchOk |-> TRUE,
   tieAscending |-> TRUE]
QueryEnv ==
  {[generated |-> g, searchOk |-> up.searchOk, tieAscending |-> up.tieAscending] :
     g \in {x \in GeneratorOutcomes : x.ok /\ x.embedding.length = vectorSize},
     up \in Searching}
    \cup {[QuietEnv EXCEPT !.generated = g] :
             g \in {x \in GeneratorOutcomes :
                      ~x.ok \/ x.embedding.length # vectorSize}}

Written(key, write) ==
  [k \in DOMAIN lastWrite \cup {key} |-> IF k = key THEN write ELSE lastWrite[k]]

\* VectorService.storeVector(record)
StoreVector ==
  /\ Accepting
  /\ \E id \in Ids \cup {NoId}, c \in Contents :
     \E upsertOk \in IF c.embedding.length = vectorSize THEN Upsert ELSE {TRUE} :
       LET record == VectorRecord(id, c)
           out == storeVector(points, record, upsertOk)
       IN  /\ id = NoId => uuidv4 \notin DOMAIN points
           /\ points' = out.points
           /\ lastCall' = [ServiceCall("store", id, record, out)
                             EXCEPT !.failed = Failed(out.calls, <<upsertOk>>)]
           /\ derived' = Derive(id, out.qdrantId)
           /\ IF out.status = "returned"
              THEN /\ lastWrite' = Written(out.qdrantId,
                                           [kind |-> "upsert", record |-> record])
                   /\ deletedOk' = {d \in deletedOk : d.key # out.qdrantId}
              ELSE UNCHANGED <<lastWrite, deletedOk>>
  /\ nops' = nops + 1
  /\ UNCHANGED lifecycle
  /\ UNCHANGED race
  /\ UNCHANGED boot
  /\ UNCHANGED session

\* VectorService.getVector(id)
GetVector ==
  /\ Accepting
  /\ \E id \in Asked, up \in Getting :
     \E scrolled \in client_scroll(points, id) :
       LET out == getVector(points, id, up.retrieveOk, up.scrollOk, scrolled)
       IN  /\ points' = out.points
           /\ lastCall' = [ServiceCall("get", id, null, out)
                             EXCEPT !.failed =
                               Failed(out.calls, <<up.retrieveOk, up.scrollOk>>)]
           /\ derived' = Derive(id, out.qdrantId)
  /\ nops' = nops + 1
  /\ UNCHANGED <<lastWrite, deletedOk>>
  /\ UNCHANGED lifecycle
  /\ UNCHANGED race
  /\ UNCHANGED boot
  /\ UNCHANGED session

\* VectorService.deleteVector(id)
DeleteVector ==
  /\ Accepting
  /\ \E id \in Asked, up \in Deleting :
     \E scrolled \in client_scroll(points, id) :
       LET out == deleteVector(points, id, up.deleteOk, up.scrollOk, scrolled,
                               up.secondDeleteOk)
           removed == out.calls[Len(out.calls)].key
       IN  /\ points' = out.points
           /\ lastCall' = [ServiceCall("delete", id, null, out)
                             EXCEPT !.failed =
                               Failed(out.calls, <<up.deleteOk, up.scrollOk,
                                                   up.secondDeleteOk>>)]
           /\ derived' = Derive(id, out.qdrantId)
           /\ IF out.status = "returned" /\ out.value = TRUE
              THEN /\ lastWrite' = Written(removed,
                                           [kind |-> "delete", record |-> null])
                   /\ deletedOk' = deletedOk \cup {[id |-> id, key |-> removed]}
              ELSE UNCHANGED <<lastWrite, deletedOk>>
  /\ nops' = nops + 1
  /\ UNCHANGED lifecycle
  /\ UNCHANGED race
  /\ UNCHANGED boot
  /\ UNCHANGED session

\* VectorService.searchSimilar(queryVector, limit, threshold)
SearchSimilar ==
  /\ Accepting
  /\ \E queryVector \in Embeddings, body \in {NoBody, Body(1, 50)} :
     \E up \in IF queryVector.length = vectorSize
               THEN Searching ELSE {AllOk} :
       LET out == searchSimilar(points, queryVector, limitOf(body),
                                thresholdOf(body), up.searchOk, up.tieAscending)
       IN  lastCall' = [ServiceCall("search", NoId, null, out)
                          EXCEPT !.queryVector = queryVector, !.body = body,
                                 !.failed = Failed(out.calls, <<up.searchOk>>)]
  /\ nops' = nops + 1
  /\ UNCHANGED <<points, derived, lastWrite, deletedOk>>
  /\ UNCHANGED lifecycle
  /\ UNCHANGED race
  /\ UNCHANGED boot
  /\ UNCHANGED session

\* POST /query: the handler's generateEmbedding(query) runs on the embedder
\* as it is, env.generated being what the pipeline gives if it is called
PostQuery ==
  /\ Accepting
  /\ \E query \in Queries, body \in Bodies :
     \E env \in IF bodySchemaOk(body) /\ ~isBlank(query) /\ embedder # "null"
                THEN QueryEnv
                ELSE {QuietEnv} :
       LET reached == bodySchemaOk(body) /\ ~isBlank(query)
           made == generateEmbedding(embedder, query, env.generated)
           generated == IF made.status = "returned"
                        THEN [ok |-> TRUE, embedding |-> made.value]
                        ELSE [ok |-> FALSE, embedding |-> embShort]
           routed == postQuery(points, query, body, generated,
                               env.searchOk, env.tieAscending)
       IN  lastCall' = [NoCall EXCEPT !.op = "POST /query", !.query = query,
                                      !.body = body, !.generated = generated,
                                      !.response = routed.response,
                                      !.calls = (IF reached THEN made.calls ELSE <<>>)
                                                  \o routed.calls]
  /\ nops' = nops + 1
  /\ UNCHANGED <<points, derived, lastWrite, deletedOk>>
  /\ UNCHANGED lifecycle
  /\ UNCHANGED race
  /\ UNCHANGED boot
  /\ UNCHANGED session

\* POST /query/similar/:id
PostSimilar ==
  /\ Accepting
  /\ \E id \in Asked, body \in Bodies :
     \E up \in IF bodySchemaOk(body) THEN Resembling ELSE {AllOk},
        scrolled \in client_scroll(points, id) :
       LET routed == postSimilar(points, id, body, up.retrieveOk,
                                 up.scrollOk, scrolled, up.searchOk,
                                 up.tieAscending)
       IN  /\ lastCall' = [NoCall EXCEPT !.op = "POST /query/similar/:id",
                                         !.id = id, !.body = body,
                                         !.qdrantId = convertToValidId(id),
                                         !.response = routed.response,
                                         !.calls = routed.calls]
           /\ derived' = IF bodySchemaOk(body)
                         THEN Derive(id, convertToValidId(id)) ELSE derived
  /\ nops' = nops + 1
  /\ UNCHANGED <<points, lastWrite, deletedOk>>
  /\ UNCHANGED lifecycle
  /\ UNCHANGED race
  /\ UNCHANGED boot
  /\ UNCHANGED session

\* initializeServices(), first await: embeddingService.initialize(); a throw
\* is caught and ends the process (process.exit(1))
LoadOutcomes ==
  { [localOk |-> TRUE, remoteOk |-> TRUE],
    [localOk |-> FALSE, remoteOk |-> TRUE],
    [localOk |-> FALSE, remoteOk |-> FALSE] }
EmbeddingInitialize ==
  /\ pc = "embedding"
  /\ \E load \in LoadOutcomes :
       LET out == embeddingInitialize(tlsVerify, load.localOk, load.remoteOk)
       IN  /\ embedder' = out.embedder
           /\ tlsVerify' = out.tls
           /\ pc' = IF out.status = "returned" THEN "vector" ELSE "exited"
           /\ lastCall' = [NoCall EXCEPT !.op = "EmbeddingService.initialize",
                                         !.status = out.status]
  /\ UNCHANGED <<points, nops, derived, lastWrite, deletedOk, collection>>
  /\ UNCHANGED race
  /\ UNCHANGED boot
  /\ UNCHANGED session

\* initializeServices(), second await: vectorService.initialize()
InitUpstream ==
  { [listOk |-> TRUE, createOk |-> TRUE, infoOk |-> TRUE],
    [listOk |-> FALSE, createOk |-> TRUE, infoOk |-> TRUE],
    [listOk |-> TRUE, createOk |-> FALSE, infoOk |-> TRUE],
    [listOk |-> TRUE, createOk |-> TRUE, infoOk |-> FALSE] }
VectorInitialize ==
  /\ pc = "vector"
  /\ \E up \in InitUpstream :
       LET out == vectorInitialize(collection, up.listOk, up.createOk, up.infoOk)
       IN  /\ collection' = out.collection
           /\ pc' = IF out.status = "returned" THEN "ready" ELSE "exited"
           /\ lastCall' = [NoCall EXCEPT !.op = "VectorService.initialize",
                                         !.status = out.status,
                                         !.calls = out.calls]
  /\ UNCHANGED <<points, nops, derived, lastWrite, deletedOk, embedder, tlsVerify>>
  /\ UNCHANGED race
  /\ UNCHANGED boot
  /\ UNCHANGED session

\* the batches of the model: two records with keys of native format (one of
\* them generated), a valid record followed by one of wrong dimension, a
\* record under a caller's own identifier, and a record at the key that
\* doc_001 is stored under
Content(text, embedding, metadata) ==
  [text |-> text, embedding |-> embedding, metadata |-> metadata]
RecordBatches ==
  { <<VectorRecord(upper_uuid, Content(text1, embA, meta1)),
      VectorRecord(NoId, Content(text2, embB, NoMeta))>>,
    <<VectorRecord(upper_uuid, Content(text2, embB, NoMeta)),
      VectorRecord(uuid_of_doc_001, Content(text1, embShort, meta1))>>,
    <<VectorRecord(doc_001, Content(text1, embA, meta1))>>,
    <<VectorRecord(uuid_of_doc_001, Content(text2, embB, NoMeta))>> }

RECURSIVE WrittenAll(_, _, _)
WrittenAll(writes, keys, records) ==
  IF keys = <<>> THEN writes
  ELSE WrittenAll([k \in DOMAIN writes \cup {Head(keys)} |->
                     IF k = Head(keys)
                     THEN [kind |-> "batch", record |-> Head(records)]
                     ELSE writes[k]],
                  Tail(keys), Tail(records))

\* VectorService.storeVectors(records)
StoreVectors ==
  /\ Accepting
  /\ \E records \in RecordBatches :
     \E upsertOk \in IF batchDimensionOk(records) THEN Upsert ELSE {TRUE} :
       LET out == storeVectors(points, records, upsertOk)
       IN  /\ (\E i \in 1..Len(records) : records[i].id = NoId)
                => uuidv4 \notin DOMAIN points
           /\ points' = out.points
           /\ lastCall' = [ServiceCall("storeBatch", NoId, null, out)
                             EXCEPT !.records = records,
                                    !.failed =
                                      Failed(out.calls,
                                        <<upsertOk /\ \A i \in 1..Len(records) :
                                            pointIdAccepted(batchId(records[i]))>>)]
           /\ IF out.status = "returned"
              THEN /\ lastWrite' = WrittenAll(lastWrite, out.value, records)
                   /\ deletedOk' =
                        {d \in deletedOk :
                           \A i \in 1..Len(out.value) : d.key # out.value[i]}
              ELSE UNCHANGED <<lastWrite, deletedOk>>
  /\ nops' = nops + 1
  /\ UNCHANGED derived
  /\ UNCHANGED lifecycle
  /\ UNCHANGED race
  /\ UNCHANGED boot
  /\ UNCHANGED session

\* VectorService.getStats()
GetStats ==
  /\ Accepting
  /\ \E infoOk \in Upsert :
       lastCall' = [ServiceCall("stats", NoId, null, getStats(points, infoOk))
                      EXCEPT !.failed = ~infoOk]
  /\ nops' = nops + 1
  /\ UNCHANGED <<points, derived, lastWrite, deletedOk>>
  /\ UNCHANGED lifecycle
  /\ UNCHANGED race
  /\ UNCHANGED boot
  /\ UNCHANGED session

\* VectorService.healthCheck(); listing the collections needs none to exist
HealthCheck ==
  /\ Accepting
  /\ \E listOk \in BOOLEAN :
       lastCall' = [ServiceCall("healthCheck", NoId, null,
                                healthCheck(points, listOk))
                      EXCEPT !.failed = ~listOk]
  /\ nops' = nops + 1
  /\ UNCHANGED <<points, derived, lastWrite, deletedOk>>
  /\ UNCHANGED lifecycle
  /\ UNCHANGED race
  /\ UNCHANGED boot
  /\ UNCHANGED session

\* the vector the pipeline gives for a text
embeddingOf(text) == IF text = text1 THEN embA ELSE embB
Piped(text) == [ok |-> TRUE, embedding |-> embeddingOf(text)]
PipeThrows == [ok |-> FALSE, embedding |-> embShort]

\* EmbeddingService.generateEmbedding(text): absent or empty text, text,
\* whitespace
GenerateEmbedding ==
  /\ Accepting
  /\ \E text \in {<<>>, text1, blankText} :
     \E piped \in IF embedder # "null" /\ textOk(text)
                  THEN {Piped(text), PipeThrows} ELSE {Piped(text)} :
       lastCall' = [ServiceCall("generate", NoId, null,
                                generateEmbedding(embedder, text, piped))
                      EXCEPT !.texts = <<text>>, !.generated = piped]
  /\ nops' = nops + 1
  /\ UNCHANGED <<points, derived, lastWrite, deletedOk>>
  /\ UNCHANGED lifecycle
  /\ UNCHANGED race
  /\ UNCHANGED boot
  /\ UNCHANGED session

TextBatches == {<<>>, <<text1, text2>>, <<text2, blankText, text1>>}

\* EmbeddingService.generateEmbeddings(texts); the pipeline throws for item
\* failAt (for none when failAt is 0)
GenerateEmbeddings ==
  /\ Accepting
  /\ \E texts \in TextBatches :
     \E failAt \in IF embedder # "null" THEN 0..Len(texts) ELSE {0} :
       LET piped == [i \in 1..Len(texts) |->
                       IF i = failAt THEN PipeThrows ELSE Piped(texts[i])]
           made == generateEmbeddings(embedder, texts, piped)
       IN  lastCall' = [ServiceCall("generateBatch", NoId, null, made.out)
                          EXCEPT !.texts = texts, !.invoked = made.invoked,
                                 !.records = piped]
  /\ nops' = nops + 1
  /\ UNCHANGED <<points, derived, lastWrite, deletedOk>>
  /\ UNCHANGED lifecycle
  /\ UNCHANGED race
  /\ UNCHANGED boot
  /\ UNCHANGED session

Next ==
  \/ EmbeddingInitialize
  \/ VectorInitialize
  \/ StoreVector
  \/ StoreVectors
  \/ GetVector
  \/ DeleteVector
  \/ SearchSimilar
  \/ GetStats
  \/ HealthCheck
  \/ GenerateEmbedding
  \/ GenerateEmbeddings
  \/ PostQuery
  \/ PostSimilar

Spec == Init /\ [][Next]_vars

(***************************************************************************)
(* Concurrent storeVector calls.  A call runs to its one await, the upsert *)
(* (lines 108-135), and resumes at line 140 when the Vector Store has      *)
(* answered; between the two, other calls run.  The Vector Store applies   *)
(* the upserts it receives one at a time, each a full replace of the point.*)
(***************************************************************************)
Writers == 1..MaxWriters

Idle ==
  [stage |-> "idle", record |-> null, key |-> NoId, point |-> null,
   value |-> null, overlapped |-> {}]

\* the records concurrent callers store: two contents for doc_001, and
\* another id
RaceRecords ==
  { VectorRecord(doc_001, Content(text1, embA, meta1)),
    VectorRecord(doc_001, Content(text2, embB, NoMeta)),
    VectorRecord(upper_uuid, Content(text1, embA, meta1)) }

\* the service after initializeServices has completed, no call made yet
InitRace ==
  /\ points = <<>>
  /\ lastCall = NoCall
  /\ nops = 0
  /\ derived = {}
  /\ lastWrite = <<>>
  /\ deletedOk = {}
  /\ pc = "ready"
  /\ embedder = "local"
  /\ tlsVerify = TRUE
  /\ collection = TRUE
  /\ inflight = [w \in Writers |-> Idle]
  /\ applied = <<>>
  /\ starting = <<>>
  /\ creates = <<>>
  /\ session = NoSession

\* storeVector up to `await this.client.upsert(...)`: the key, the dimension
\* check, the point, and the upsert request on its way
StoreBegin(w) ==
  /\ inflight[w].stage = "idle"
  /\ \E record \in RaceRecords :
       LET qdrantId == convertToValidId(record.id)
       IN  /\ storeDimensionOk(record)
           /\ inflight' =
                [inflight EXCEPT ![w] =
                   [stage |-> "sent", record |-> record, key |-> qdrantId,
                    point |-> storePoint(record, qdrantId), value |-> null,
                    overlapped |-> {v \in Writers : inflight[v].stage = "sent"}]]
  /\ UNCHANGED <<points, lastCall, nops, derived, lastWrite, deletedOk, applied>>
  /\ UNCHANGED lifecycle
  /\ UNCHANGED boot
  /\ UNCHANGED session

\* the Vector Store applies the upsert of w
UpsertApplied(w) ==
  /\ inflight[w].stage = "sent"
  /\ collection
  /\ points' = client_upsert(points, inflight[w].point)
  /\ applied' = Append(applied, w)
  /\ inflight' = [inflight EXCEPT ![w].stage = "applied"]
  /\ UNCHANGED <<lastCall, nops, derived, lastWrite, deletedOk>>
  /\ UNCHANGED lifecycle
  /\ UNCHANGED boot
  /\ UNCHANGED session

\* the Vector Store fails the upsert of w
UpsertRejected(w) ==
  /\ inflight[w].stage = "sent"
  /\ inflight' = [inflight EXCEPT ![w].stage = "rejected"]
  /\ UNCHANGED <<points, lastCall, nops, derived, lastWrite, deletedOk, applied>>
  /\ UNCHANGED lifecycle
  /\ UNCHANGED boot
  /\ UNCHANGED session

\* an upsert that is taken as acknowledged as soon as it is on its way
upsertAcknowledgedOnReceipt(stage) == stage \in {"sent", "applied"}

\* await this.client.upsert(collection, {wait: true, ...}) resolves: with
\* wait: true the Vector Store answers once the upsert has been applied
upsertAcknowledged(stage) == stage = "applied"

\* the await resolves and storeVector returns originalId || qdrantId
StoreReturn(w) ==
  /\ upsertAcknowledged(inflight[w].stage)
  /\ inflight' =
       [inflight EXCEPT ![w].stage = "returned",
                        ![w].value = storeReturn(inflight[w].record.id,
                                                 inflight[w].key)]
  /\ UNCHANGED <<points, lastCall, nops, derived, lastWrite, deletedOk, applied>>
  /\ UNCHANGED lifecycle
  /\ UNCHANGED boot
  /\ UNCHANGED session

\* the await rejects and storeVector throws the wrapped error
StoreThrows(w) ==
  /\ inflight[w].stage = "rejected"
  /\ inflight' = [inflight EXCEPT ![w].stage = "thrown"]
  /\ UNCHANGED <<points, lastCall, nops, derived, lastWrite, deletedOk, applied>>
  /\ UNCHANGED lifecycle
  /\ UNCHANGED boot
  /\ UNCHANGED session

NextRace ==
  \/ \E w \in Writers : StoreBegin(w)
  \/ \E w \in Writers : UpsertApplied(w)
  \/ \E w \in Writers : UpsertRejected(w)
  \/ \E w \in Writers : StoreReturn(w)
  \/ \E w \in Writers : StoreThrows(w)

SpecRace == InitRace /\ [][NextRace]_vars

(***************************************************************************)
(* Concurrent VectorService.initialize calls (two calls within the         *)
(* process, or two instances of the server on one Vector Store).  A call   *)
(* has three awaits: getCollections, createCollection when the collection  *)
(* was not listed, getCollection; between them other calls run.            *)
(***************************************************************************)
Starters == 1..MaxStarters

NotStarted == [stage |-> "idle", listed |-> FALSE, calls |-> <<>>]

\* createCollection(collectionName, {vectors: {size, distance: 'Cosine'}, ...})
CollectionConfig == [size |-> vectorSize, distance |-> "Cosine"]

\* embeddingService.initialize() has returned, vectorService.initialize() is
\* about to be called; the Vector Store may hold the collection already
InitBoot ==
  /\ points = <<>>
  /\ lastCall = NoCall
  /\ nops = 0
  /\ derived = {}
  /\ lastWrite = <<>>
  /\ deletedOk = {}
  /\ pc = "vector"
  /\ embedder = "local"
  /\ tlsVerify = TRUE
  /\ collection \in BOOLEAN
  /\ inflight = <<>>
  /\ applied = <<>>
  /\ starting = [s \in Starters |-> NotStarted]
  /\ creates = <<>>
  /\ session = NoSession

\* if (!collectionExists) { await this.client.createCollection(...) }
createsWhenNotListed(listed) == ~listed

\* const collections = await this.client.getCollections(); collectionExists
\* is what the Vector Store held when it answered
ListCollections(s) ==
  /\ starting[s].stage = "idle"
  /\ \E listOk \in BOOLEAN :
       starting' =
         [starting EXCEPT ![s] =
            [stage |-> IF listOk THEN "listed" ELSE "thrown",
             listed |-> listOk /\ collection,
             calls |-> <<GetCollectionsCall>>]]
  /\ UNCHANGED <<points, lastCall, nops, derived, lastWrite, deletedOk, creates>>
  /\ UNCHANGED lifecycle
  /\ UNCHANGED race
  /\ UNCHANGED session

\* await this.client.createCollection(...): the Vector Store refuses to create
\* a collection it already holds, and may fail
CreateCollection(s) ==
  /\ starting[s].stage = "listed"
  /\ createsWhenNotListed(starting[s].listed)
  /\ \E createOk \in BOOLEAN :
       LET made == createOk /\ ~collection
       IN  /\ creates' = Append(creates, [by |-> s, existed |-> collection,
                                          made |-> made,
                                          config |-> CollectionConfig])
           /\ collection' = (collection \/ made)
           /\ starting' =
                [starting EXCEPT ![s].stage = IF made THEN "created" ELSE "thrown",
                                 ![s].calls = Append(@, CreateCollectionCall)]
  /\ UNCHANGED <<points, lastCall, nops, derived, lastWrite, deletedOk>>
  /\ UNCHANGED <<pc, embedder, tlsVerify>>
  /\ UNCHANGED race
  /\ UNCHANGED session

\* const info = await this.client.getCollection(this.collectionName); then
\* initialize returns, or rethrows the failure
GetCollection(s) ==
  /\ \/ starting[s].stage = "created"
     \/ starting[s].stage = "listed" /\ ~createsWhenNotListed(starting[s].listed)
  /\ \E infoOk \in BOOLEAN :
       starting' =
         [starting EXCEPT ![s].stage = IF infoOk /\ collection
                                       THEN "returned" ELSE "thrown",
                          ![s].calls = Append(@, GetCollectionCall)]
  /\ UNCHANGED <<points, lastCall, nops, derived, lastWrite, deletedOk, creates>>
  /\ UNCHANGED lifecycle
  /\ UNCHANGED race
  /\ UNCHANGED session

NextBoot ==
  \/ \E s \in Starters : ListCollections(s)
  \/ \E s \in Starters : CreateCollection(s)
  \/ \E s \in Starters : GetCollection(s)

SpecBoot == InitBoot /\ [][NextBoot]_vars

(***************************************************************************)
(* The server taking POST /embed/batch requests, with deletes between them *)
(***************************************************************************)
\* the bodies of the model: three items with a blank text in the middle, two
\* items for one id, an item with the empty text, and the empty array
RequestBatches ==
  { <<EmbeddingRequest(doc_001, text1, meta1),
      EmbeddingRequest(NoId, blankText, NoMeta),
      EmbeddingRequest(upper_uuid, text2, NoMeta)>>,
    <<EmbeddingRequest(doc_001, text1, meta1),
      EmbeddingRequest(doc_001, text2, NoMeta)>>,
    <<EmbeddingRequest(doc_001, <<>>, NoMeta)>>,
    <<>> }

\* How the pipeline and the Vector Store answer the items: all well, or the
\* generateEmbedding or the storeVector of one item fails; on a collection
\* the Vector Store does not hold every upsert fails
BatchAnswers(requests) ==
  LET answer(i, failAt, what) ==
        [generated |-> IF i = failAt /\ what = "generate" THEN PipeThrows
                       ELSE Piped(requests[i].text),
         upsertOk |-> collection /\ ~(i = failAt /\ what = "store")]
  IN  { [i \in 1..Len(requests) |-> answer(i, failAt, what)] :
          failAt \in {0} \cup {i \in 1..Len(requests) :
                                 ~isBlankText(requests[i].text)},
          what \in {"generate", "store"} }

RECURSIVE WrittenEach(_, _)
WrittenEach(writes, stored) ==
  IF stored = <<>> THEN writes
  ELSE WrittenEach([k \in DOMAIN writes \cup {Head(stored).key} |->
                      IF k = Head(stored).key
                      THEN [kind |-> "upsert", record |-> Head(stored).record]
                      ELSE writes[k]],
                   Tail(stored))

\* POST /embed/batch
PostEmbedBatch ==
  /\ Accepting
  /\ \E requests \in RequestBatches :
     \E answers \in IF batchSchemaOk(requests) /\ embedder # "null"
                     THEN BatchAnswers(requests)
                     ELSE {[i \in 1..Len(requests) |->
                              [generated |-> Piped(requests[i].text),
                               upsertOk |-> collection]]} :
       LET routed == postEmbedBatch(points, embedder, requests, answers)
           done == routed.done
       IN  /\ points' = done.points
           /\ lastCall' = [NoCall EXCEPT !.op = "POST /embed/batch",
                                         !.records = requests,
                                         !.answers = answers,
                                         !.response = routed.response,
                                         !.value = [processed |-> Len(done.results)],
                                         !.calls = done.calls]
           /\ derived' = derived \cup done.reached
           /\ lastWrite' = WrittenEach(lastWrite, done.stored)
           /\ deletedOk' =
                {d \in deletedOk :
                   \A i \in 1..Len(done.stored) : d.key # done.stored[i].key}
  /\ nops' = nops + 1
  /\ UNCHANGED lifecycle
  /\ UNCHANGED race
  /\ UNCHANGED boot
  /\ UNCHANGED session

NextEmbed ==
  \/ EmbeddingInitialize
  \/ VectorInitialize
  \/ PostEmbedBatch
  \/ DeleteVector

SpecEmbed == Init /\ [][NextEmbed]_vars

(***************************************************************************)
(* The calculator's interactive prediction session: main() loads the model *)
(* and asks questions until it is told to exit.  session.prompts counts    *)
(* the prompts shown, session.predicts the calls of model.predict, and     *)
(* session.shown is the line printed last.                                 *)
(***************************************************************************)
UpperCase ==
  <<"A","B","C","D","E","F","G","H","I","J","K","L","M",
    "N","O","P","Q","R","S","T","U","V","W","X","Y","Z">>
LowerCase ==
  <<"a","b","c","d","e","f","g","h","i","j","k","l","m",
    "n","o","p","q","r","s","t","u","v","w","x","y","z">>

\* a toLowerCase that leaves the text as it is
toLowerCaseNone(text) == text

\* String.prototype.toLowerCase()
toLowerCase(text) ==
  [i \in 1..Len(text) |->
     IF \E n \in 1..26 : UpperCase[n] = text[i]
     THEN LowerCase[CHOOSE n \in 1..26 : UpperCase[n] = text[i]]
     ELSE text[i]]

\* String.prototype.trim(): the white space at both ends removed
RECURSIVE trim(_)
trim(text) ==
  IF text = <<>> THEN text
  ELSE IF Head(text) = " " THEN trim(Tail(text))
  ELSE IF text[Len(text)] = " " THEN trim(SubSeq(text, 1, Len(text) - 1))
  ELSE text

\* what the user types at the prompt: exit, exit in capitals with spaces
\* around it, nothing, spaces, a question with spaces around it, and a
\* question that begins with exit
Inputs ==
  { <<"e","x","i","t">>,
    <<" ","E","x","I","T"," ">>,
    <<>>,
    <<" "," ">>,
    <<" ","2","+","2"," ">>,
    <<"e","x","i","t","s">> }

\* the process has started and main() is about to run
InitCalc ==
  /\ points = <<>>
  /\ lastCall = NoCall
  /\ nops = 0
  /\ derived = {}
  /\ lastWrite = <<>>
  /\ deletedOk = {}
  /\ pc = "embedding"
  /\ embedder = "null"
  /\ tlsVerify = TRUE
  /\ collection = FALSE
  /\ inflight = <<>>
  /\ applied = <<>>
  /\ starting = <<>>
  /\ creates = <<>>
  /\ session = [NoSession EXCEPT !.pc = "start"]

\* main() up to the first prompt: without a model that loads, the two lines
\* and process.exit(1); with one, the examples and askQuestion()
LoadModel ==
  /\ session.pc = "start"
  /\ \E modelLoaded \in BOOLEAN :
       session' =
         IF ~modelLoaded
         THEN [session EXCEPT !.pc = "exited", !.shown = "No trained model found!",
                              !.exitCode = 1]
         ELSE [session EXCEPT !.pc = "prompt", !.shown = "Enter a math question: ",
                              !.prompts = 1]
  /\ UNCHANGED <<points, lastCall, nops, derived, lastWrite, deletedOk>>
  /\ UNCHANGED lifecycle
  /\ UNCHANGED race
  /\ UNCHANGED boot

\* the callback of rl.question: the user has answered the prompt; predictOk
\* is whether model.predict returns if it is called
Answer ==
  /\ session.pc = "prompt"
  /\ session.prompts < MaxPrompts
  /\ \E input \in Inputs, predictOk \in BOOLEAN :
       session' =
         IF trim(toLowerCase(input)) = <<"e","x","i","t">>
         THEN [session EXCEPT !.pc = "closed", !.input = input,
                              !.shown = "Goodbye!"]
         ELSE IF trim(input) = <<>>
         THEN [session EXCEPT !.input = input,
                              !.shown = "Please enter a math question.",
                              !.prompts = @ + 1]
         ELSE [session EXCEPT !.input = input, !.asked = trim(input),
                              !.predicts = @ + 1,
                              !.shown = IF predictOk THEN "Result" ELSE "Error",
                              !.prompts = @ + 1]
  /\ UNCHANGED <<points, lastCall, nops, derived, lastWrite, deletedOk>>
  /\ UNCHANGED lifecycle
  /\ UNCHANGED race
  /\ UNCHANGED boot

NextCalc ==
  \/ LoadModel
  \/ Answer

SpecCalc == InitCalc /\ [][NextCalc]_vars

(***************************************************************************)
(* Claims                                                                  *)
(***************************************************************************)
\* the ids and keys of the model written in the Vector Store's native key
\* format (a UUID with version and variant markers)
NativeKeys == {uuid_of_doc_001, upper_uuid, gen_uuid_1, gen_uuid_2}

\* what get(id) returns in the current state when the Vector Store answers
GetReturns(id) ==
  {getVector(points, id, TRUE, TRUE, scrolled).value :
     scrolled \in client_scroll(points, id)}

C2_Passthrough ==
  (lastCall.op \in {"store", "get", "delete"} /\ lastCall.id \in NativeKeys)
    => /\ lastCall.qdrantId = lastCall.id
       /\ \A i \in 1..Len(lastCall.calls) : lastCall.calls[i].key = lastCall.id

\* an upper-case UUID was stored under itself
C2_Witness ==
  /\ lastCall.op = "store"
  /\ lastCall.id = upper_uuid
  /\ lastCall.status = "returned"
  /\ upper_uuid \in DOMAIN points
  /\ points[upper_uuid].id = upper_uuid

\* C3: deriveKey is idempotent: every key derived for a supplied id has the
\* native key format, version and variant markers included, and deriving a
\* key from it again gives it back unchanged.
C3_Idempotent ==
  \A p \in derived :
    /\ Len(p[2]) = 36
    /\ p[2][15] \in {"1", "2", "3", "4", "5"}
    /\ p[2][20] \in {"8", "9", "a", "b", "A", "B"}
    /\ convertToValidId(p[2]) = p[2]
    /\ convertToValidId(convertToValidId(p[1])) = convertToValidId(p[1])

\* a key came out of the hash branch
C3_Witness ==
  \E p \in derived : p[1] = doc_001 /\ p[2] = uuid_of_doc_001 /\ p[2] # p[1]

\* C4: dimension gate: a store whose embedding, or a search whose query
\* vector, has a length other than D ends in a failure naming D and the
\* actual length, issues no Vector Store call and leaves the points as
\* they were.
C4_DimensionGate ==
  [][ LET c == lastCall'
          bad == IF c.op = "store" THEN c.record.embedding
                 ELSE c.queryVector
      IN  (c.op \in {"store", "search"} /\ bad.length # vectorSize)
            => /\ c.status = "thrown"
               /\ c.error.cause \in {"Embedding dimension mismatch",
                                     "Query vector dimension mismatch"}
               /\ c.error.expected = vectorSize
               /\ c.error.got = bad.length
               /\ c.calls = <<>>
               /\ points' = points ]_vars

\* a store with a short embedding was refused while points were stored
C4_Witness ==
  /\ lastCall.op = "store"
  /\ lastCall.record.embedding.length # vectorSize
  /\ lastCall.status = "thrown"
  /\ points # <<>>

\* the record get is to give back for a stored record
Stored(record) ==
  [id |-> record.id, text |-> record.text, embedding |-> record.embedding,
   metadata |-> IF record.metadata.defined THEN record.metadata ELSE EmptyMeta]

C6_StoreReturnRetrieves ==
  (lastCall.op = "store" /\ lastCall.status = "returned")
    => /\ lastCall.value =
            (IF lastCall.id # NoId THEN lastCall.id ELSE lastCall.qdrantId)
       /\ lastCall.id = NoId => lastCall.value \in GenPool
       /\ GetReturns(lastCall.value) =
            {Stored([lastCall.record EXCEPT !.id = lastCall.value])}

\* a record stored without an id came back under a generated key
C6_Witness ==
  /\ lastCall.op = "store"
  /\ lastCall.status = "returned"
  /\ lastCall.id = NoId
  /\ lastCall.value \in DOMAIN points

C8_DeleteTrueOnlyIfRemoved ==
  [][ LET c == lastCall'
          present == GetReturns(c.id) # {null}
      IN  (c.op = "delete" /\ c.status = "returned")
            => /\ c.value = TRUE => (present /\ points' # points)
               /\ ~present => c.value = FALSE ]_vars

\* the points a similar-search for id resolves to
ResolvedKeys(id, qdrantId) ==
  IF qdrantId \in DOMAIN points THEN {qdrantId}
  ELSE {k \in DOMAIN points : points[k].payload.original_id = id}

\* C9: self-exclusion: the results of searchSimilarTo(existingId) never hold
\* an entry for the record existingId resolves to, whether it was addressed
\* by its original identifier or by its native storage key.
C9_SelfExclusion ==
  (lastCall.op = "POST /query/similar/:id" /\ lastCall.response.status = 200)
    => \A i \in 1..Len(lastCall.response.results) :
         lastCall.response.results[i].key
           \notin ResolvedKeys(lastCall.id, lastCall.qdrantId)

\* the nearest-neighbour queries among the calls of the last operation
SearchCalls ==
  {lastCall.calls[i] : i \in {j \in 1..Len(lastCall.calls) :
                                lastCall.calls[j].call = "search"}}

\* C10: clamping: every nearest-neighbour query of a search or
\* searchSimilarTo request carries min(limit, 100) and max(threshold, 0),
\* never a limit above 100 or a threshold below 0, and a request with an
\* out-of-range limit or threshold is corrected this way, not failed.
C10_Clamping ==
  lastCall.op \in {"POST /query", "POST /query/similar/:id"}
    => /\ \A q \in SearchCalls :
            /\ q.limit = Min(limitOf(lastCall.body), 100)
            /\ q.threshold = Max(thresholdOf(lastCall.body), 0)
            /\ q.limit <= 100
            /\ q.threshold >= 0
       /\ (limitOf(lastCall.body) > 100 \/ thresholdOf(lastCall.body) < 0)
            => lastCall.response.handled

\* the operations the initialization gate is stated for
GatedServiceOps == {"store", "storeBatch", "get", "delete", "search", "generate"}
GatedRoutes == {"POST /query", "POST /query/similar/:id"}

\* C11: initialization gate: a store, storeBatch, get, delete, search,
\* searchSimilarTo or generate call that begins before initializeServices has
\* completed (model load and collection creation/verification) fails with
\* NotInitialized and issues no Vector Store or Embedding Generator call.
C11_InitGate ==
  [][ (pc # "ready" /\ nops' = nops + 1)
        => LET c == lastCall'
           IN  /\ c.op \in GatedServiceOps
                    => /\ c.status = "thrown"
                       /\ c.error = NotInitialized
                       /\ c.calls = <<>>
               /\ c.op \in GatedRoutes
                    => /\ c.response.status # 200
                       /\ c.calls = <<>> ]_vars

\* C18: the local-model-load fallback never weakens transport security:
\* certificate verification of outgoing connections stays enabled in every
\* reachable state, also after the model was loaded from the remote source.
C18_TlsStaysVerified ==
  tlsVerify

\* C19: generate(text) on an initialized service rejects absent, empty or
\* whitespace-only text with the validation failure and calls the Embedding
\* Generator exactly once for any other text; for blank text the generator
\* is never called, initialized or not.
C19_GenerateValidates ==
  lastCall.op = "generate"
    => LET text == lastCall.texts[1]
       IN  /\ isBlankText(text) => lastCall.calls = <<>>
           /\ (embedder # "null" /\ isBlankText(text))
                => lastCall.status = "thrown" /\ lastCall.error = EmptyText
           /\ (embedder # "null" /\ ~isBlankText(text))
                => lastCall.calls = <<GeneratorCall(text)>>

\* whitespace-only text was rejected by the initialized service
C19_Witness ==
  /\ lastCall.op = "generate"
  /\ embedder # "null"
  /\ lastCall.texts = <<blankText>>
  /\ lastCall.status = "thrown"
  /\ lastCall.error = EmptyText

\* the first item of a generateBatch call whose generate fails: the service
\* is not initialized, the text is blank or the pipeline throws (piped is
\* kept in lastCall.records); one past the end when none fails
FirstFailing ==
  LET texts == lastCall.texts
      fails(i) == \/ embedder = "null"
                  \/ isBlankText(texts[i])
                  \/ ~lastCall.records[i].ok
      bad == {i \in 1..Len(texts) : fails(i)}
  IN  IF bad = {} THEN Len(texts) + 1
      ELSE CHOOSE i \in bad : \A j \in bad : i <= j

\* C20: generateBatch(texts) calls generate once per input in input order,
\* each call after the one before it has completed, up to and including the
\* first item that fails; then it fails as a whole with no partial result
\* and no call for later items.  When no item fails the output has the
\* length of the input and element i is the vector of texts[i].
C20_GenerateBatchInOrder ==
  (lastCall.op = "generateBatch" /\ lastCall.texts # <<>>)
    => LET texts == lastCall.texts
           k == FirstFailing
           n == IF k > Len(texts) THEN Len(texts) ELSE k
           sent == SelectSeq(SubSeq(texts, 1, n), LAMBDA t : ~isBlankText(t))
       IN  /\ lastCall.invoked = SubSeq(texts, 1, n)
           /\ embedder # "null"
                => lastCall.calls = [i \in 1..Len(sent) |-> GeneratorCall(sent[i])]
           /\ k <= Len(texts)
                => lastCall.status = "thrown" /\ lastCall.value = null
           /\ k > Len(texts)
                => /\ lastCall.status = "returned"
                   /\ Len(lastCall.value) = Len(texts)
                   /\ \A i \in 1..Len(texts) :
                        lastCall.value[i] = lastCall.records[i].embedding

\* a batch of three failed at its second item, the third never being tried
C20_Witness ==
  /\ lastCall.op = "generateBatch"
  /\ embedder # "null"
  /\ Len(lastCall.texts) = 3
  /\ Len(lastCall.invoked) = 2
  /\ Len(lastCall.calls) = 1
  /\ lastCall.status = "thrown"

\* a store issued its upsert and returned normally before initializeServices
\* had completed
C11_EarlyStore ==
  /\ pc # "ready"
  /\ lastCall.op = "store"
  /\ lastCall.status = "returned"
  /\ lastCall.calls # <<>>

\* C17: upstream failures are never swallowed: when a Vector Store call made
\* by store, storeBatch, get, delete or search fails, the operation ends in a
\* failure that wraps the cause, never in a normal value (null, false, an
\* empty list or an id).
C17_UpstreamNotSwallowed ==
  (lastCall.op \in {"store", "storeBatch", "get", "delete", "search"}
     /\ lastCall.failed)
    => /\ lastCall.status = "thrown"
       /\ lastCall.error.cause = "upstream"
       /\ lastCall.error.wrapped # ""

\* the points of the two collections that differ, by key
Changed(before, after) ==
  {k \in DOMAIN before \cup DOMAIN after :
     ~(k \in DOMAIN before /\ k \in DOMAIN after /\ before[k] = after[k])}

\* what a store and a delete may change: the point at the derived key; for a
\* delete also the point found by its original id, and only by removing it
StoreFrame(c) == Changed(points, points') \subseteq {c.qdrantId}
DeleteFrame(c) ==
  /\ Changed(points, points')
       \subseteq {k \in DOMAIN points :
                    k = c.qdrantId \/ points[k].payload.original_id = c.id}
  /\ Cardinality(Changed(points, points')) <= 1
  /\ DOMAIN points' \subseteq DOMAIN points

\* C14: lifecycle frame: get, search, searchSimilarTo, stats and healthCheck
\* leave the stored points unchanged; store(record) changes at most the
\* point at deriveKey(record.id) and delete(id) removes at most the point for
\* id; no other operation creates, changes or removes a record.
C14_LifecycleFrame ==
  [][ LET c == lastCall'
      IN  /\ c.op \notin {"store", "delete"} => points' = points
          /\ c.op = "store" => StoreFrame(c)
          /\ c.op = "delete" => DeleteFrame(c) ]_vars

\* C14 as amended: the same frame, with storeBatch(records) as the third
\* writing operation: it changes at most the points at the ids of its records.
C14_LifecycleFrameWithBatch ==
  [][ LET c == lastCall'
      IN  /\ c.op \notin {"store", "storeBatch", "delete"} => points' = points
          /\ c.op = "store" => StoreFrame(c)
          /\ c.op = "delete" => DeleteFrame(c)
          /\ c.op = "storeBatch"
               => Changed(points, points')
                    \subseteq {batchId(c.records[i]) : i \in 1..Len(c.records)} ]_vars

\* a storeBatch wrote its two points beside the point of doc_001
C14_Witness ==
  /\ lastCall.op = "storeBatch"
  /\ lastCall.status = "returned"
  /\ Len(lastCall.records) = 2
  /\ DOMAIN points = {uuid_of_doc_001, upper_uuid, gen_uuid_1}

\* C15: storeBatch is all-or-nothing on dimension: when a record of the
\* batch has an embedding of length other than D the call fails, issues no
\* upsert and writes no point, the valid records before the bad one
\* included; otherwise it issues exactly one upsert carrying every point,
\* which writes them all when it is acknowledged and none when it fails.
C15_BatchAllOrNothing ==
  [][ (lastCall'.op = "storeBatch" /\ nops' = nops + 1)
        => LET c == lastCall'
               n == Len(c.records)
               key(i) == batchId(c.records[i])
           IN  IF \E i \in 1..n : c.records[i].embedding.length # vectorSize
               THEN /\ c.status = "thrown"
                    /\ c.calls = <<>>
                    /\ points' = points
               ELSE /\ Len(c.calls) = 1
                    /\ c.calls[1].call = "upsert"
                    /\ c.calls[1].keys = [i \in 1..n |-> key(i)]
                    /\ c.status = "thrown" => points' = points
                    /\ c.status = "returned"
                         => \A i \in 1..n :
                              /\ key(i) \in DOMAIN points'
                              /\ (\A j \in (i + 1)..n : key(j) # key(i))
                                   => points'[key(i)] = batchPoint(c.records[i]) ]_vars

\* a batch whose second record has the wrong dimension failed as a whole
C15_Witness ==
  /\ lastCall.op = "storeBatch"
  /\ lastCall.status = "thrown"
  /\ Len(lastCall.records) = 2
  /\ lastCall.records[1].embedding.length = vectorSize
  /\ lastCall.records[2].embedding.length # vectorSize
  /\ upper_uuid \notin DOMAIN points

\* C16: original-id preservation: a point written by store with a supplied
\* id carries that id in its payload; get(deriveKey(id)) returns a record
\* with the original id, and every search result for the point reports it.
\* The native key is reported only for points stored without an original id.
C16_OriginalIdPreserved ==
  \A k \in DOMAIN lastWrite :
    LET w == lastWrite[k]
        original == IF w.kind = "upsert" /\ w.record.id # NoId
                    THEN w.record.id ELSE k
        hits(v, t) == searchSimilar(points, v, LimitCap, ThresholdFloor, TRUE, t).value
    IN  w.kind \in {"upsert", "batch"}
          => /\ (w.kind = "upsert" /\ w.record.id # NoId)
                  => points[k].payload.original_id = w.record.id
             /\ \A r \in GetReturns(k) : r # null /\ r.id = original
             /\ \A v \in {embA, embB}, t \in BOOLEAN :
                  \A i \in 1..Len(hits(v, t)) :
                    hits(v, t)[i].key = k => hits(v, t)[i].id = original

\* the record of doc_001, fetched by its storage key, came back as doc_001
C16_Witness ==
  /\ lastCall.op = "get"
  /\ lastCall.id = uuid_of_doc_001
  /\ lastCall.status = "returned"
  /\ lastCall.value # null
  /\ lastCall.value.id = doc_001

\* the caller whose upsert the Vector Store applied last at the key of w
LastAppliedAt(w) ==
  LET at == {i \in 1..Len(applied) : inflight[applied[i]].key = inflight[w].key}
  IN  applied[CHOOSE i \in at : \A j \in at : j <= i]

\* C12: read-after-write: store(record) returns only after the Vector Store
\* has applied its upsert, so a get for the same id that starts after the
\* return (no delete and no later store of that id in between) returns that
\* record; with later stores of the id, the record of the one applied last;
\* never null and never a record stored before.
C12_ReadAfterWrite ==
  \A w \in DOMAIN inflight :
    inflight[w].stage = "returned"
      => /\ \E i \in 1..Len(applied) : applied[i] = w
         /\ GetReturns(inflight[w].record.id)
              = {Stored(inflight[LastAppliedAt(w)].record)}

\* a store of doc_001 has returned while another store is still on its way
\* to the Vector Store
C12_Witness ==
  \E w \in DOMAIN inflight : \E v \in DOMAIN inflight :
    /\ inflight[w].stage = "returned"
    /\ inflight[w].record.id = doc_001
    /\ inflight[v].stage = "sent"
    /\ GetReturns(doc_001) = {Stored(inflight[w].record)}

\* the callers that stored id
WritersOf(id) ==
  {w \in DOMAIN inflight : inflight[w].stage # "idle" /\ inflight[w].record.id = id}

\* C13: last-writer-wins: when two or more store calls for one id ran
\* concurrently and all have returned, the Vector Store holds exactly one
\* point for the id, and its vector, text and metadata are all those of one
\* writer, the one whose upsert was applied last; never a mixture.
C13_LastWriterWins ==
  \A id \in {doc_001, upper_uuid} :
    (/\ Cardinality(WritersOf(id)) >= 2
     /\ \A w \in WritersOf(id) : inflight[w].stage = "returned")
      => LET held == {k \in DOMAIN points :
                        k = convertToValidId(id) \/ points[k].payload.original_id = id}
             last == LastAppliedAt(CHOOSE w \in WritersOf(id) : TRUE)
             record == inflight[last].record
         IN  /\ Cardinality(held) = 1
             /\ last \in WritersOf(id)
             /\ \A k \in held :
                  /\ points[k].vector = record.embedding
                  /\ points[k].payload.text = record.text
                  /\ points[k].payload.metadata = metadataOrEmpty(record.metadata)

\* two stores of doc_001 with different contents overlapped, the upsert of
\* the one that began second was applied first, and both have returned
C13_Witness ==
  /\ DOMAIN inflight = Writers
  /\ inflight[1].stage = "returned"
  /\ inflight[2].stage = "returned"
  /\ inflight[1].record.id = doc_001
  /\ inflight[2].record.id = doc_001
  /\ inflight[1].record.text # inflight[2].record.text
  /\ 1 \in inflight[2].overlapped
  /\ applied = <<2, 1>>

\* the payload-filtered scans among the calls of the last operation
Scans ==
  {i \in 1..Len(lastCall.calls) : lastCall.calls[i].call = "scroll"}

\* the direct retrieval of the last get was answered by the Vector Store
RetrieveAnswered ==
  ~(lastCall.status = "thrown" /\ Len(lastCall.calls) = 1)

\* C21: get(id) resolution: get first retrieves directly by deriveKey(id);
\* it issues the payload-filtered scan (originalId == id, limit 1) if and
\* only if the direct retrieval found nothing and deriveKey(id) != id; it
\* returns null if and only if every path it tried found no point, and
\* otherwise returns the record rebuilt from the first point found.
C21_GetResolution ==
  lastCall.op = "get"
    => LET c == lastCall
           key == convertToValidId(c.id)
           found == IF c.before # <<>> THEN {c.before}
                    ELSE IF Scans # {} THEN client_scroll(points, c.id) \ {<<>>}
                    ELSE {}
       IN  /\ c.calls[1] = RetrieveCall(key)
           /\ RetrieveAnswered => (Scans # {} <=> (c.before = <<>> /\ key # c.id))
           /\ Scans # {} => /\ Scans = {2}
                            /\ c.calls[2].key = c.id
                            /\ c.calls[2].limit = 1
           /\ c.status = "returned"
                => /\ c.value = null <=> found = {}
                   /\ c.value # null
                        => \E p \in found :
                             /\ c.value.id = (IF p[1].payload.original_id # NoId
                                              THEN p[1].payload.original_id
                                              ELSE p[1].id)
                             /\ c.value.text = p[1].payload.text
                             /\ c.value.embedding = p[1].vector
                             /\ c.value.metadata = p[1].payload.metadata

\* a get of doc_001 missed at the derived key, scanned by original_id and
\* returned null while other points were stored
C21_Witness ==
  /\ lastCall.op = "get"
  /\ lastCall.id = doc_001
  /\ lastCall.before = <<>>
  /\ Scans = {2}
  /\ lastCall.status = "returned"
  /\ lastCall.value = null
  /\ points # <<>>

\* the direct delete of the last delete(id) was not acknowledged
DirectDeleteFailed ==
  ~(Len(lastCall.calls) = 1 /\ lastCall.status = "returned" /\ lastCall.value = TRUE)

\* C22: delete(id) uses the same two-path resolution as get: it first
\* attempts a direct delete by deriveKey(id), and when that attempt fails or
\* misses (no point at the derived key) while deriveKey(id) != id it scans
\* by originalId == id to discover the actual key and deletes that point.
C22_DeleteResolution ==
  lastCall.op = "delete"
    => LET c == lastCall
           key == convertToValidId(c.id)
       IN  /\ c.calls[1] = DeleteCall(key)
           /\ ((DirectDeleteFailed \/ c.before = <<>>) /\ key # c.id)
                => /\ Len(c.calls) >= 2
                   /\ c.calls[2] = ScrollCall(c.id)
                   /\ Len(c.calls) = 3 => c.calls[3].call = "delete"

\* C23: no automatic retries: within one store, storeBatch, get, delete or
\* search invocation no Vector Store call is issued a second time; in
\* particular one delete(id) never sends a second delete for the storage
\* key whose first delete failed.
C23_NoRetries ==
  lastCall.op \in {"store", "storeBatch", "get", "delete", "search"}
    => \A i \in 1..Len(lastCall.calls) : \A j \in 1..Len(lastCall.calls) :
         (i < j /\ lastCall.calls[i].call = lastCall.calls[j].call)
           => lastCall.calls[i].key # lastCall.calls[j].key

\* C24: searchSimilarTo(existingId, ...) on an id for which get returns null
\* yields an empty result list marked as failed (success == false) and
\* issues no nearest-neighbour query to the Vector Store.
C24_SimilarToMissing ==
  (/\ lastCall.op = "POST /query/similar/:id"
   /\ lastCall.response.handled
   /\ GetReturns(lastCall.id) = {null})
    => /\ lastCall.response.results = <<>>
       /\ lastCall.response.success = FALSE
       /\ SearchCalls = {}

\* a similar-search for doc_001, which has no record, was answered 404 with
\* the get's two calls made, while another point was there to be found
C24_Witness ==
  /\ lastCall.op = "POST /query/similar/:id"
  /\ lastCall.id = doc_001
  /\ lastCall.response.status = 404
  /\ lastCall.response.results = <<>>
  /\ Len(lastCall.calls) = 2
  /\ points # <<>>

C26_ScanNeverFinds ==
  /\ \A k \in DOMAIN points :
       points[k].payload.original_id # NoId
         => k = convertToValidId(points[k].payload.original_id)
  /\ \A id \in Ids :
       client_retrieve(points, convertToValidId(id)) = <<>>
         => \A k \in DOMAIN points : points[k].payload.original_id # id
  /\ (lastCall.op = "get" /\ Scans # {} /\ lastCall.status = "returned")
       => lastCall.value = null

\* doc_001 was stored and deleted, and a get of it then missed at the
\* derived key and scanned
C26_Witness ==
  /\ lastCall.op = "get"
  /\ lastCall.id = doc_001
  /\ Scans # {}
  /\ lastCall.status = "returned"
  /\ uuid_of_doc_001 \in DOMAIN lastWrite
  /\ lastWrite[uuid_of_doc_001].kind = "delete"

\* the searches a similar-search for the last call's id can have got back:
\* search(embedding of the resolved record, min(limit, 100), max(threshold, 0))
SimilarSearches ==
  {searchSimilar(points, record.embedding,
                 Min(limitOf(lastCall.body), 100),
                 Max(thresholdOf(lastCall.body), 0), TRUE, tie).value :
     record \in GetReturns(lastCall.id) \ {null}, tie \in BOOLEAN}

\* the entries of a search result but those whose id is id, in order
Others(found, id) == SelectSeq(found, LAMBDA entry : entry.id # id)

\* the search calls of the last operation, counted
SearchCount ==
  Cardinality({i \in 1..Len(lastCall.calls) : lastCall.calls[i].call = "search"})

\* the result is the search with the entries of id existingId removed, in
\* order, from one query, and has at most limit entries
FilteredSearch(found) ==
  /\ lastCall.response.results = Others(found, lastCall.id)
  /\ SearchCount = 1
  /\ Len(lastCall.response.results) <= limitOf(lastCall.body)

\* the answered similar-searches
SimilarAnswered ==
  lastCall.op = "POST /query/similar/:id" /\ lastCall.response.status = 200

\* C27 as stated: the result of searchSimilarTo(existingId, limit, threshold)
\* is exactly the result of search(embedding of the resolved record,
\* min(limit,100), max(threshold,0)) with the entries whose id equals
\* existingId removed, in the same order; no refill query is made, so it
\* returns at most limit entries and returns limit-1 entries when the record
\* itself was among the top limit hits.
C27_SimilarIsFilteredSearch ==
  SimilarAnswered
    => \E found \in SimilarSearches :
         /\ FilteredSearch(found)
         /\ (\E i \in 1..Len(found) :
               found[i].key \in ResolvedKeys(lastCall.id, lastCall.qdrantId))
              => Len(lastCall.response.results)
                   = Min(limitOf(lastCall.body), 100) - 1

\* C27, amended: the result is exactly that search with the entries whose id
\* equals existingId removed, in the same order; no refill query is made, so
\* it returns at most limit entries, and as many fewer than the search
\* returned as the search had entries with id existingId.
C27_SimilarIsFilteredSearchExact ==
  SimilarAnswered
    => \E found \in SimilarSearches :
         /\ FilteredSearch(found)
         /\ Len(lastCall.response.results)
              = Len(found) - Cardinality({i \in 1..Len(found) :
                                            found[i].id = lastCall.id})

\* a similar-search for doc_001 with two points stored gave back the other
\* point and not doc_001 itself
C27_Witness ==
  /\ SimilarAnswered
  /\ lastCall.id = doc_001
  /\ Cardinality(DOMAIN points) = 2
  /\ Len(lastCall.response.results) = 1
  /\ lastCall.response.results[1].id # doc_001
  /\ \E found \in SimilarSearches : Len(found) = 2

\* C28: VectorService.initialize issues createCollection at most once for
\* the collection and never for a collection that already exists, in any
\* sequence or interleaving of initialize calls; after a successful
\* initialize the collection exists with dimension D and cosine distance.
\* (A request the Vector Store failed while it did not hold the collection
\* is not counted.)
C28_CreateAtMostOnce ==
  /\ Cardinality({i \in 1..Len(creates) :
                    creates[i].made \/ creates[i].existed}) <= 1
  /\ \A i \in 1..Len(creates) :
       /\ ~creates[i].existed
       /\ creates[i].config.size = vectorSize
       /\ creates[i].config.distance = "Cosine"
  /\ \A s \in DOMAIN starting : starting[s].stage = "returned" => collection

\* item i of the batch c is blank, or its generate or its store fails
ItemFails(c, i) ==
  \/ isBlankText(c.records[i].text)
  \/ embedder = "null"
  \/ ~c.answers[i].generated.ok
  \/ ~c.answers[i].upsertOk

\* the calls the items i.. of the batch c issue when they are processed one
\* at a time in request order: the generator, then the upsert
RECURSIVE ItemCalls(_, _)
ItemCalls(c, i) ==
  IF i > Len(c.records) THEN <<>>
  ELSE LET r == c.records[i]
           own == IF isBlankText(r.text) \/ embedder = "null" THEN <<>>
                  ELSE IF ~c.answers[i].generated.ok THEN <<GeneratorCall(r.text)>>
                  ELSE <<GeneratorCall(r.text), UpsertCall(convertToValidId(r.id))>>
       IN  own \o ItemCalls(c, i + 1)

\* C29: POST /embed/batch reports per-item outcomes: for a non-empty request
\* array it returns exactly one result per request in request order,
\* processes the items one at a time, and a blank text or a failure of
\* generate/store for item i marks only result i as failed (success ==
\* false), without aborting or undoing the items before or after it: every
\* other item is embedded and stored, and what it stored stays.
C29_BatchPerItem ==
  [][ LET c == lastCall'
          results == c.response.results
          wins(k) == {i \in 1..Len(c.records) :
                        ~ItemFails(c, i) /\ convertToValidId(c.records[i].id) = k}
          last(k) == CHOOSE i \in wins(k) : \A j \in wins(k) : j <= i
      IN  (c.op = "POST /embed/batch" /\ c.response.handled /\ c.records # <<>>)
            => /\ c.response.status = 201
               /\ Len(results) = Len(c.records)
               /\ \A i \in 1..Len(c.records) :
                    /\ results[i].success = ~ItemFails(c, i)
                    /\ results[i].id = c.records[i].id
                    /\ results[i].success
                         => /\ results[i].text = c.records[i].text
                            /\ results[i].embedding = c.answers[i].generated.embedding
               /\ c.calls = ItemCalls(c, 1)
               /\ \A k \in DOMAIN points \cup DOMAIN points' \cup NativeKeys :
                    IF wins(k) = {}
                    THEN /\ k \in DOMAIN points' <=> k \in DOMAIN points
                         /\ k \in DOMAIN points => points'[k] = points[k]
                    ELSE /\ k \in DOMAIN points'
                         /\ points'[k].payload.text = c.records[last(k)].text
                         /\ points'[k].payload.original_id = c.records[last(k)].id
                         /\ points'[k].vector
                              = c.answers[last(k)].generated.embedding ]_vars

\* a batch of three whose middle item was blank: results succeeded, failed,
\* succeeded, and the first and third records are stored
C29_Witness ==
  /\ lastCall.op = "POST /embed/batch"
  /\ Len(lastCall.response.results) = 3
  /\ lastCall.response.results[1].success
  /\ ~lastCall.response.results[2].success
  /\ lastCall.response.results[3].success
  /\ {uuid_of_doc_001, upper_uuid} \subseteq DOMAIN points
  /\ points[uuid_of_doc_001].payload.text = text1
  /\ points[upper_uuid].payload.text = text2

\* the inputs that are "exit" but for case and surrounding white space
ExitInputs == {<<"e","x","i","t">>, <<" ","E","x","I","T"," ">>}
\* the inputs that are empty or white space only
BlankInputs == {<<>>, <<" "," ">>}

\* C30: calculator prediction session: if no trained model can be loaded
\* the program exits with an error before showing any prompt; otherwise
\* the session keeps prompting until the input is "exit" (case-insensitive,
\* trimmed), which ends it; a blank input re-prompts without calling
\* predict, and a prediction that throws is reported and followed by a new
\* prompt rather than ending the session.
C30_CalculatorSession ==
  [][ /\ session'.pc = "exited"
        => session'.prompts = 0 /\ session'.exitCode = 1 /\ session.pc = "start"
      /\ (session.pc = "start" /\ session'.pc # "exited")
        => session'.pc = "prompt" /\ session'.prompts = 1
      /\ session.pc = "prompt"
        => /\ session'.input \in ExitInputs
             => /\ session'.pc = "closed"
                /\ session'.prompts = session.prompts
                /\ session'.predicts = session.predicts
           /\ session'.input \in BlankInputs
             => /\ session'.pc = "prompt"
                /\ session'.prompts = session.prompts + 1
                /\ session'.predicts = session.predicts
           /\ session'.input \notin ExitInputs \cup BlankInputs
             => /\ session'.pc = "prompt"
                /\ session'.prompts = session.prompts + 1
                /\ session'.predicts = session.predicts + 1
                /\ session'.shown \in {"Result", "Error"}
      /\ session.pc \in {"closed", "exited"} => session' = session ]_vars

\* a prediction threw, the error was shown and the session went on: it is
\* at a new prompt after an earlier blank input and the failed prediction
C30_Witness ==
  /\ session.pc = "prompt"
  /\ session.shown = "Error"
  /\ session.prompts >= 3
  /\ session.predicts = 1

====
